---- MODULE Spec2Model ----
(***************************************************************************)
(* libimage: PNG container parser and zlib/DEFLATE front end.              *)
(*                                                                         *)
(* The model follows src/src/png.c (chunk loop, IHDR validation, DEFLATE   *)
(* block dispatch), src/src/zlib.c (bit reader, zlib header),              *)
(* src/src/common.c (byte reader, endian swap) and the driver              *)
(* libimage_process_data of src/src/libimage.c.                            *)
(*                                                                         *)
(* The input buffer is revealed one chunk at a time: the parser is         *)
(* one-pass, so the bytes behind the cursor are unconstrained until the    *)
(* loop iteration that reads them, and the bytes before the chunk that is  *)
(* being read are never read again and are dropped: data is the window     *)
(* [base, base + Len(bytes)) of the input buffer.                          *)
(*                                                                         *)
(* A uint32_t that is loaded from the input (chunk length, chunk type,     *)
(* width, height, gamma) is the tuple of its four bytes, most significant  *)
(* first; code_buf is the sequence of its 32 bits, least significant       *)
(* first.  Offsets, sizes and counters are integers.                       *)
(***************************************************************************)
EXTENDS Integers, Sequences, FiniteSets, TLC

VARIABLES
    data,            \* the input buffer: [base, bytes], bytes 0..255 from offset base on
    hostLittle,      \* TRUE on a little-endian host, FALSE on a big-endian one
    r,               \* LibImageDataReader: cursor, error, type
    info,            \* LibImageImageInfo
    first_chunk,     \* locals of libimage_process_png
    got_idat_chunk,
    got_plte_chunk,
    got_gama_chunk,
    size_data,
    chunk,           \* the LibImagePngChunk of the current loop iteration
    loop_count,
    zlib_buf,        \* LibImageZlibBuffer of handle_png_data
    end,             \* local `end` of handle_png_data
    out,             \* the caller's *width, *height, *error
    pc,              \* position of the decode
    seen,            \* history: the type bytes of the chunks read so far, in input order
    ihdr_payload,    \* history: the payload bytes of the accepted IHDR chunk
    idat_payloads,   \* history: concatenation of the payloads of the IDAT chunks appended
    deflate_runs,    \* history: number of calls of handle_png_data
    huff,            \* decompress_huffman_block: its tables and the locals of its loop
    twin             \* history: what an earlier decode of the same input returned

vars == << data, hostLittle, r, info, first_chunk, got_idat_chunk, got_plte_chunk,
           got_gama_chunk, size_data, chunk, loop_count, zlib_buf, end, out, pc,
           seen, ihdr_payload, idat_payloads, deflate_runs, huff, twin >>

----------------------------------------------------------------------------
(* Bounds of the model *)

\* chunks read by one decode
MaxChunks == 4

\* the longest payload of a stored block
MaxStored == 2

\* max_code_in_bits and the number of symbols of a Huffman table checked on its own
HuffBits == 3
HuffSymbols == 4

\* the most bytes the decode writes to the output
MaxOut == 12

----------------------------------------------------------------------------
(* Error codes, src/src/common.h *)

LIBIMAGE_PNG_ERROR_HEADER == 1
LIBIMAGE_PNG_HUFFMAN_BAD_CODE_LENGTHS == 2
LIBIMAGE_PNG_ERROR_IHDR_INTERLACE == 3
LIBIMAGE_PNG_ERROR_BIG_IMAGE == 4
LIBIMAGE_PNG_ERROR_IHDR_NOT_FOUND == 5
LIBIMAGE_PNG_ERROR_INVALID_FILE == 6
LIBIMAGE_PNG_ERROR_ZERO_SIZE == 7
LIBIMAGE_PNG_ERROR_IDAT_SIZE_LIMIT == 8
LIBIMAGE_PNG_ERROR_IHDR_BIT_DEPTH == 9
LIBIMAGE_PNG_ERROR_CORRUPT_IHDR == 10
LIBIMAGE_PNG_ERROR_IHDR_COLOUR_TYPE == 11
LIBIMAGE_PNG_ERROR_IHDR_BIT_DEPTH_COMBINATION == 12
LIBIMAGE_PNG_ERROR_CRC_NOT_MATCH == 13
LIBIMAGE_PNG_ERROR_MULTIPLE_IHDR == 14
LIBIMAGE_PNG_ERROR_NO_IDAT == 15
LIBIMAGE_PNG_ERROR_NO_PLTE == 16
LIBIMAGE_PNG_ERROR_GAMA_AFTER_PLTE == 17
LIBIMAGE_PNG_ERROR_MULTIPLE_GAMA == 18
LIBIMAGE_PNG_ERROR_UNEXPECTED_PLTE == 19
LIBIMAGE_ERROR_TYPE_NOT_SUPPORTED == 20
LIBIMAGE_ERROR_OUT_OF_MEMORY == 23
LIBIMAGE_PNG_ERROR_ZLIB_COMPRESSION == 24
LIBIMAGE_ERROR_ZLIB_HEADER_CORRUPTED == 25
LIBIMAGE_PNG_ERROR_PRESET_DICT == 26
LIBIMAGE_PNG_ERROR_CORRUPTED_FILE == 27
LIBIMAGE_ERROR_MEMORY_ERROR == 28

LIBIMAGE_TYPE_PNG == 1

(* Program constants *)

PNG_COLOR_TYPE_GREYSCALE == 0
PNG_COLOR_TYPE_TRUECOLOUR == 2
PNG_COLOR_TYPE_INDEXED_COLOUR == 3
PNG_COLOR_TYPE_GREYSCALE_WITH_ALPHA == 4
PNG_COLOR_TYPE_TRUE_COLOUR_WITH_ALPHA == 6

LIBIMAGE_PNG_MAX_IMAGE_SIZE == 16777216
IDAT_DEFAULT_BLOCK_SIZE == 4096
IDAT_SIZE_LIMIT == 1073741824

----------------------------------------------------------------------------
(* Integer helpers: C operators on fixed-width integers *)

RECURSIVE BitAnd(_, _)
\* a & b on non-negative integers
BitAnd(a, b) ==
    IF a = 0 \/ b = 0 THEN 0
    ELSE (a % 2) * (b % 2) + 2 * BitAnd(a \div 2, b \div 2)

Pow2(n) == 2 ^ n

\* the value of a 32-bit word below 2^31
WordVal(w) == ((w[1] * 256 + w[2]) * 256 + w[3]) * 256 + w[4]

\* w > n and w == 0 on a uint32_t word w, for 0 <= n < 2^31
WordGt(w, n) == w[1] >= 128 \/ WordVal(w) > n
WordIsZero(w) == w = << 0, 0, 0, 0 >>

\* IS_POWER_OF_TWO(num): ((int)num) & (((int)num) - 1); for num = 0 the
\* right operand is -1 (all ones) and the result is 0.
IS_POWER_OF_TWO(num) == IF num = 0 THEN 0 ELSE BitAnd(num, num - 1)

\* LIBIMAGE_PNG_TYPE(a,b,c,d)
LIBIMAGE_PNG_TYPE(a, b, c, d) == << a, b, c, d >>

TYPE_IHDR == LIBIMAGE_PNG_TYPE(73, 72, 68, 82)
TYPE_gAMA == LIBIMAGE_PNG_TYPE(103, 65, 77, 65)
TYPE_PLTE == LIBIMAGE_PNG_TYPE(80, 76, 84, 69)
TYPE_IDAT == LIBIMAGE_PNG_TYPE(73, 68, 65, 84)
TYPE_IEND == LIBIMAGE_PNG_TYPE(73, 69, 78, 68)

png_file_sig == << 137, 80, 78, 71, 13, 10, 26, 10 >>

----------------------------------------------------------------------------
(* Byte reader, src/src/common.c *)

\* the byte at 0-based offset off of the buffer d
ByteAt(d, off) == d.bytes[off - d.base + 1]

\* a buffer that starts at offset 0
Buffer(bytes) == [ base |-> 0, bytes |-> bytes ]

\* *(uint32_t*)(data + off): a host-order 32-bit load
Load32(d, off, little) ==
    IF little
    THEN << ByteAt(d, off + 3), ByteAt(d, off + 2), ByteAt(d, off + 1), ByteAt(d, off) >>
    ELSE << ByteAt(d, off), ByteAt(d, off + 1), ByteAt(d, off + 2), ByteAt(d, off + 3) >>

\* *(uint64_t*)(data + off): a host-order 64-bit load, most significant byte first
Load64(d, off, little) ==
    IF little
    THEN Load32(d, off + 4, little) \o Load32(d, off, little)
    ELSE Load32(d, off, little) \o Load32(d, off + 4, little)

\* u32_endian_swap: identity when test.b[0] == 1 (big-endian host), else a byte swap
u32_endian_swap(value, little) ==
    IF ~little THEN value
    ELSE << value[4], value[3], value[2], value[1] >>

\* read_from_reader / peek_from_reader / consume_bytes on the cursor
read_from_reader(rd) == rd.cursor
peek_from_reader(rd, n) == rd.cursor + n
consume_bytes(rd, n) == [rd EXCEPT !.cursor = rd.cursor + n]

----------------------------------------------------------------------------
(* PNG chunk reading and IHDR validation, src/src/png.c *)

\* read_png_chunk: the chunk at the cursor and the reader after it.
\* start_chunk_data and end_chunk_data are offsets into the input buffer;
\* end_chunk_data is peek_from_reader(r, data_len - 1), its int argument -1 when
\* data_len is 0.
read_png_chunk(d, rd, little) ==
    LET data_len == WordVal(u32_endian_swap(Load32(d, read_from_reader(rd), little), little))
        type     == u32_endian_swap(Load32(d, peek_from_reader(rd, 4), little), little)
        r1       == consume_bytes(rd, 8)
        start    == read_from_reader(r1)
        endp     == peek_from_reader(r1, data_len - 1)
        r2       == consume_bytes(r1, data_len)
        crc      == Load32(d, read_from_reader(r2), little)
        r3       == consume_bytes(r2, 4)
    IN  [ c |-> [ data_len |-> data_len, type |-> type, start_chunk_data |-> start,
                  end_chunk_data |-> endp, crc |-> crc ],
          r |-> r3 ]

\* ihdr = *(LibImagePngIHdr*)(c->start_chunk_data): the struct laid over the payload,
\* width and height loaded in host order
LoadIhdr(d, c, little) ==
    [ width              |-> Load32(d, c.start_chunk_data, little),
      height             |-> Load32(d, c.start_chunk_data + 4, little),
      bit_depth          |-> ByteAt(d, c.start_chunk_data + 8),
      colour_type        |-> ByteAt(d, c.start_chunk_data + 9),
      compression_method |-> ByteAt(d, c.start_chunk_data + 10),
      filter_method      |-> ByteAt(d, c.start_chunk_data + 11),
      interlace_method   |-> ByteAt(d, c.start_chunk_data + 12) ]

\* validate_ihdr: 0 when the header is accepted, else the error code
validate_ihdr(h) ==
    IF h.colour_type < PNG_COLOR_TYPE_GREYSCALE
       /\ h.colour_type > PNG_COLOR_TYPE_TRUE_COLOUR_WITH_ALPHA
    THEN LIBIMAGE_PNG_ERROR_IHDR_COLOUR_TYPE
    ELSE IF h.colour_type = 1 \/ h.colour_type = 5
    THEN LIBIMAGE_PNG_ERROR_IHDR_COLOUR_TYPE
    ELSE IF h.bit_depth > 16 /\ h.bit_depth < 1
    THEN LIBIMAGE_PNG_ERROR_IHDR_BIT_DEPTH
    ELSE IF h.bit_depth # 1 /\ BitAnd(h.bit_depth, 1) # 0
    THEN LIBIMAGE_PNG_ERROR_IHDR_BIT_DEPTH
    ELSE IF h.interlace_method < 0 /\ h.interlace_method > 1
    THEN LIBIMAGE_PNG_ERROR_IHDR_INTERLACE
    ELSE IF h.colour_type = PNG_COLOR_TYPE_GREYSCALE
    THEN IF h.bit_depth # 1 /\ IS_POWER_OF_TWO(h.bit_depth) = 0
         THEN LIBIMAGE_PNG_ERROR_IHDR_BIT_DEPTH_COMBINATION ELSE 0
    ELSE IF h.colour_type \in { PNG_COLOR_TYPE_TRUE_COLOUR_WITH_ALPHA,
                                PNG_COLOR_TYPE_GREYSCALE_WITH_ALPHA,
                                PNG_COLOR_TYPE_TRUECOLOUR }
    THEN IF h.bit_depth # 8 /\ h.bit_depth # 16
         THEN LIBIMAGE_PNG_ERROR_IHDR_BIT_DEPTH_COMBINATION ELSE 0
    ELSE IF h.colour_type = PNG_COLOR_TYPE_INDEXED_COLOUR
    THEN IF h.bit_depth # 1 /\ h.bit_depth > 8 /\ IS_POWER_OF_TWO(h.bit_depth) = 0
         THEN LIBIMAGE_PNG_ERROR_IHDR_BIT_DEPTH_COMBINATION ELSE 0
    ELSE 0

\* process_ihdr_chunk storing width and height as loaded, without u32_endian_swap
process_ihdr_chunk_noswap(c, d, rd, inf, little) ==
    LET ihdr           == LoadIhdr(d, c, little)
        validation_ret == validate_ihdr(ihdr)
        i1 == [inf EXCEPT !.color_type = ihdr.colour_type]
        i2 == [i1 EXCEPT !.width = ihdr.width, !.height = ihdr.height]
    IN  IF validation_ret # 0
        THEN [ r |-> [rd EXCEPT !.error = validation_ret], info |-> inf ]
        ELSE IF WordGt(i2.width, LIBIMAGE_PNG_MAX_IMAGE_SIZE)
                \/ WordGt(i2.height, LIBIMAGE_PNG_MAX_IMAGE_SIZE)
        THEN [ r |-> [rd EXCEPT !.error = LIBIMAGE_PNG_ERROR_BIG_IMAGE], info |-> i2 ]
        ELSE IF WordIsZero(i2.width) \/ WordIsZero(i2.height)
        THEN [ r |-> [rd EXCEPT !.error = LIBIMAGE_PNG_ERROR_ZERO_SIZE], info |-> i2 ]
        ELSE [ r |-> rd, info |-> i2 ]

\* process_ihdr_chunk: the reader error and the image info after it
process_ihdr_chunk(c, d, rd, inf, little) ==
    LET ihdr           == LoadIhdr(d, c, little)
        validation_ret == validate_ihdr(ihdr)
        i1 == [inf EXCEPT !.color_type = ihdr.colour_type]
        i2 == [i1 EXCEPT !.width  = u32_endian_swap(ihdr.width, little),
                         !.height = u32_endian_swap(ihdr.height, little)]
    IN  IF validation_ret # 0
        THEN [ r |-> [rd EXCEPT !.error = validation_ret], info |-> inf ]
        ELSE IF WordGt(i2.width, LIBIMAGE_PNG_MAX_IMAGE_SIZE)
                \/ WordGt(i2.height, LIBIMAGE_PNG_MAX_IMAGE_SIZE)
        THEN [ r |-> [rd EXCEPT !.error = LIBIMAGE_PNG_ERROR_BIG_IMAGE], info |-> i2 ]
        ELSE IF WordIsZero(i2.width) \/ WordIsZero(i2.height)
        THEN [ r |-> [rd EXCEPT !.error = LIBIMAGE_PNG_ERROR_ZERO_SIZE], info |-> i2 ]
        ELSE [ r |-> rd, info |-> i2 ]

\* check_png_signature: -1 when rejected, 0 when accepted
check_png_signature(d, little) ==
    LET correct_sig  == Load64(Buffer(png_file_sig), 0, little)
        sig_to_check == Load64(d, 0, little)
    IN  IF sig_to_check # sig_to_check THEN -1 ELSE 0

\* check_data_header: the reader after the signature check
check_data_header(d, rd, little) ==
    IF check_png_signature(d, little) = 0
    THEN [consume_bytes(rd, 8) EXCEPT !.type = LIBIMAGE_TYPE_PNG]
    ELSE [rd EXCEPT !.error = LIBIMAGE_ERROR_TYPE_NOT_SUPPORTED]

----------------------------------------------------------------------------
(* CRC of a chunk, src/src/png.c, compiled in with LIBIMAGE_PNG_CHECK_CRC.   *)
(* A uint32_t of the CRC computation is the sequence of its 32 bits, least  *)
(* significant first.                                                       *)

\* the element of a set of one element
Only(S) == CHOOSE x \in S : TRUE

\* the 32 bits of the word whose bytes are w, most significant byte first
\* (f @@ << >> is f, held as a table of its values)
WordBits(w) ==
    [ k \in 1..32 |-> (w[4 - ((k - 1) \div 8)] \div (2 ^ ((k - 1) % 8))) % 2 ] @@ << >>

\* the bytes, most significant first, of the word whose bits are b
BitsWord(b) ==
    Only({ [ i \in 1..4 |->
               Only({ w[lo + 1] + 2 * w[lo + 2] + 4 * w[lo + 3] + 8 * w[lo + 4]
                      + 16 * w[lo + 5] + 32 * w[lo + 6] + 64 * w[lo + 7] + 128 * w[lo + 8] :
                        lo \in { 8 * (4 - i) } }) ] @@ << >> : w \in { b } })

\* a ^ b and ~a on uint32_t
XorBits(a, b) == [ k \in 1..32 |-> (a[k] + b[k]) % 2 ] @@ << >>
NotBits(a) == [ k \in 1..32 |-> 1 - a[k] ] @@ << >>

\* a >> n on uint32_t
ShrBits(a, n) == [ k \in 1..32 |-> IF k + n <= 32 THEN a[k + n] ELSE 0 ] @@ << >>

\* #define CRC_POLYNOMIAL 0xebd88320
CRC_POLYNOMIAL == WordBits(<< 235, 216, 131, 32 >>)

\* the reflected polynomial of the ISO 3309 CRC-32, 0xedb88320
ISO_3309_POLYNOMIAL == WordBits(<< 237, 184, 131, 32 >>)

\* #define ALL_32_BITS_SET 0xffffffffL
ALL_32_BITS_SET == [ k \in 1..32 |-> 1 ]

RECURSIVE crc_table_steps(_, _, _)
\* k rounds of c = c & 1 ? (c >> 1) ^ poly : c >> 1
crc_table_steps(poly, c, k) ==
    IF k = 0 THEN c
    ELSE Only({ crc_table_steps(poly, c1, k - 1) :
                  c1 \in { IF c[1] = 1 THEN XorBits(ShrBits(c, 1), poly) ELSE ShrBits(c, 1) } })

\* make_crc_table: crc_table[n] for the polynomial poly
crc_table(poly, n) == crc_table_steps(poly, WordBits(<< 0, 0, 0, n >>), 8)

\* (result ^ byte) & 0xff
crc_index(result, byte) ==
    Only({ x[1] + 2 * x[2] + 4 * x[3] + 8 * x[4] + 16 * x[5] + 32 * x[6] + 64 * x[7]
           + 128 * x[8] : x \in { XorBits(result, WordBits(<< 0, 0, 0, byte >>)) } })

RECURSIVE crc_loop(_, _, _, _)
\* result = crc_table[(result ^ buf[n]) & 0xff] ^ (result >> 8) for the bytes n.. of buf
crc_loop(poly, result, buf, n) ==
    IF n > Len(buf) THEN result
    ELSE Only({ crc_loop(poly, r1, buf, n + 1) :
                  r1 \in { XorBits(crc_table(poly, crc_index(result, buf[n])),
                                   ShrBits(result, 8)) } })

\* the register after the loop and the final complement, as a word
crc_register(poly, buf) == BitsWord(NotBits(crc_loop(poly, ALL_32_BITS_SET, buf, 1)))

\* crc(buf, len) on the Len(buf) bytes buf: the value it returns
crc(buf, little) == u32_endian_swap(crc_register(CRC_POLYNOMIAL, buf), little)

\* chunk.type.b: the bytes in memory of chunk.type.i, which holds the swapped load
type_b(c, little) == IF little THEN << c.type[4], c.type[3], c.type[2], c.type[1] >> ELSE c.type

----------------------------------------------------------------------------
(* zlib framing and bit reader, src/src/zlib.c.  The stream s is the        *)
(* compressed-data buffer; buf and buf_end are 0-based offsets into it.     *)
(* code_buf_bits is a uint32_t: a negative value x stands for the wrapped   *)
(* value 2^32 + x.                                                          *)

\* the 32 bits of the uint32_t 0, least significant first
ZeroBits == [ k \in 1..32 |-> 0 ]

\* code_buf >> n
Shr(w, n) == [ k \in 1..32 |-> IF k + n <= 32 THEN w[k + n] ELSE 0 ]

\* code_buf | ((uint32_t) byte << n)
OrShl(w, byte, n) ==
    [ k \in 1..32 |-> IF k > n /\ k <= n + 8 /\ (byte \div Pow2(k - n - 1)) % 2 = 1
                      THEN 1 ELSE w[k] ]

RECURSIVE BitsVal(_, _)
\* the value of the low n bits of w, n <= 16
BitsVal(w, n) == IF n = 0 THEN 0 ELSE w[n] * Pow2(n - 1) + BitsVal(w, n - 1)

\* code_buf & ((1 << n) - 1)
LowBits(w, n) == BitsVal(w, n)

\* code_buf >= (1 << n), 0 <= n <= 31
GeOneShl(w, n) == \E k \in (n + 1)..32 : w[k] = 1

\* a < n on uint32_t a and int n converted to unsigned, n >= 0
Lt32(a, n) == a >= 0 /\ a < n

\* zbuf_init: alloc_ok is the outcome of the sliding-window malloc
zbuf_init(content_len, alloc_window, alloc_ok) ==
    LET b0 == [ buf |-> 0, buf_end |-> content_len, code_buf |-> ZeroBits,
                code_buf_bits |-> 0,
                error |-> 0, allocated_window |-> 0, sliding_window |-> 0,
                sliding_window_off |-> 0, sliding_window_limit |-> 0, window |-> << >> ]
    IN  IF alloc_window > 0
        THEN IF ~alloc_ok
             THEN [b0 EXCEPT !.error = LIBIMAGE_ERROR_OUT_OF_MEMORY]
             ELSE [b0 EXCEPT !.sliding_window = 1, !.sliding_window_limit = 32768,
                             !.allocated_window = 1]
        ELSE b0

\* zbuf_deinit: free(sliding_window); sliding_window = NULL
zbuf_deinit(b) == IF b.allocated_window = 1 THEN [b EXCEPT !.sliding_window = 0] ELSE b

zbuf_is_eof(b) == b.buf >= b.buf_end

\* zbuf_get_byte: the byte served and the buffer after it
zbuf_get_byte(b, s) ==
    IF zbuf_is_eof(b) THEN [ v |-> 0, b |-> b ]
    ELSE [ v |-> s[b.buf + 1], b |-> [b EXCEPT !.buf = b.buf + 1] ]

\* one round of the loop of zbuf_fill_code_buf: a byte is put above the code_buf_bits
\* bits held
zbuf_fill_byte(b, s) ==
    Only({ [g.b EXCEPT !.code_buf = OrShl(b.code_buf, g.v, b.code_buf_bits) @@ << >>,
                       !.code_buf_bits = b.code_buf_bits + 8] :
             g \in { zbuf_get_byte(b, s) } })

RECURSIVE zbuf_fill_code_buf(_, _)
zbuf_fill_code_buf(b, s) ==
    IF GeOneShl(b.code_buf, b.code_buf_bits)
    THEN [b EXCEPT !.buf = b.buf_end]
    ELSE Only({ IF b1.code_buf_bits <= 24 THEN zbuf_fill_code_buf(b1, s) ELSE b1 :
                  b1 \in { zbuf_fill_byte(b, s) } })

\* n bits taken from the bits the bit reader holds, without a fill
zbuf_take_n_bits(b, s, n) ==
    [ v |-> LowBits(b.code_buf, n),
      b |-> [b EXCEPT !.code_buf = Shr(b.code_buf, n) @@ << >>,
                      !.code_buf_bits = b.code_buf_bits - n] ]

\* zbuf_get_n_bits: the n bits served and the buffer after them
zbuf_get_n_bits(b, s, n) ==
    Only({ [ v |-> LowBits(b1.code_buf, n),
             b |-> [b1 EXCEPT !.code_buf = Shr(b1.code_buf, n) @@ << >>,
                              !.code_buf_bits = b1.code_buf_bits - n] ] :
             b1 \in { IF Lt32(b.code_buf_bits, n) THEN zbuf_fill_code_buf(b, s) ELSE b } })

\* a header parse without the FCHECK test
zbuf_parse_header_no_fcheck(b, s) ==
    LET g1 == zbuf_get_byte(b, s)
        g2 == zbuf_get_byte(g1.b, s)
        b2 == g2.b
    IN  IF zbuf_is_eof(b2)
        THEN [b2 EXCEPT !.error = LIBIMAGE_ERROR_ZLIB_HEADER_CORRUPTED]
        ELSE IF BitAnd(g2.v, 32) # 0
        THEN [b2 EXCEPT !.error = LIBIMAGE_PNG_ERROR_PRESET_DICT]
        ELSE IF BitAnd(g1.v, 15) # 8
        THEN [b2 EXCEPT !.error = LIBIMAGE_PNG_ERROR_ZLIB_COMPRESSION]
        ELSE b2

\* zbuf_parse_header
zbuf_parse_header(b, s) ==
    LET g1    == zbuf_get_byte(b, s)
        g2    == zbuf_get_byte(g1.b, s)
        cmf   == g1.v
        flags == g2.v
        cm    == BitAnd(cmf, 15)
        b2    == g2.b
    IN  IF zbuf_is_eof(b2) \/ ((cmf * 256 + flags) % 31) # 0
        THEN [b2 EXCEPT !.error = LIBIMAGE_ERROR_ZLIB_HEADER_CORRUPTED]
        ELSE IF BitAnd(flags, 32) # 0
        THEN [b2 EXCEPT !.error = LIBIMAGE_PNG_ERROR_PRESET_DICT]
        ELSE IF cm # 8
        THEN [b2 EXCEPT !.error = LIBIMAGE_PNG_ERROR_ZLIB_COMPRESSION]
        ELSE b2

\* write_uncompressed_data that keeps the size a buffer once got
write_uncompressed_data_no_grow(b, s, inf, size, alloc_ok) ==
    LET mem_size == IF inf.un_size = 0 THEN (IF size > 1024 THEN size ELSE 1024)
                    ELSE inf.un_size
        i1 == IF inf.un_size = 0
              THEN [inf EXCEPT !.un_size = mem_size, !.un_offset = 0]
              ELSE inf
    IN  IF mem_size # inf.un_size /\ ~alloc_ok
        THEN [inf EXCEPT !.error = LIBIMAGE_ERROR_OUT_OF_MEMORY]
        ELSE [i1 EXCEPT !.uncompressed_data =
                            i1.uncompressed_data \o [k \in 1..size |-> s[b.buf + k]],
                        !.un_offset = i1.un_offset + size]

\* write_uncompressed_data with opt_value == NULL: size bytes are copied from buf->buf.
\* uncompressed_data holds the un_offset bytes written so far.
write_uncompressed_data(b, s, inf, size, alloc_ok) ==
    LET Grow[m \in Nat] == IF size + inf.un_offset > m THEN Grow[m * 2] ELSE m
        mem_size == IF inf.un_size = 0 THEN (IF size > 1024 THEN size ELSE 1024)
                    ELSE Grow[inf.un_size]
        i1 == IF inf.un_size = 0
              THEN [inf EXCEPT !.un_size = mem_size, !.un_offset = 0]
              ELSE [inf EXCEPT !.un_size = mem_size]
    IN  IF mem_size # inf.un_size /\ ~alloc_ok
        THEN [inf EXCEPT !.error = LIBIMAGE_ERROR_OUT_OF_MEMORY]
        ELSE [i1 EXCEPT !.uncompressed_data =
                            i1.uncompressed_data \o [k \in 1..size |-> s[b.buf + k]],
                        !.un_offset = i1.un_offset + size]

\* write_uncompressed_data with size 1 and opt_value pointing at a byte that holds value
write_uncompressed_value(inf, value, alloc_ok) ==
    LET Grow[m \in Nat] == IF 1 + inf.un_offset > m THEN Grow[m * 2] ELSE m
        mem_size == IF inf.un_size = 0 THEN 1024 ELSE Grow[inf.un_size]
        i1 == IF inf.un_size = 0
              THEN [inf EXCEPT !.un_size = mem_size, !.un_offset = 0]
              ELSE [inf EXCEPT !.un_size = mem_size]
    IN  IF mem_size # inf.un_size /\ ~alloc_ok
        THEN [inf EXCEPT !.error = LIBIMAGE_ERROR_OUT_OF_MEMORY]
        ELSE [i1 EXCEPT !.uncompressed_data = Append(i1.uncompressed_data, value),
                        !.un_offset = i1.un_offset + 1]

\* zbuf_append_to_sliding_window: window holds the sliding_window_off bytes appended so
\* far, the bytes behind them are the zeros of zbuf_init
zbuf_append_to_sliding_window(b, value) ==
    IF Len(value) + b.sliding_window_off > b.sliding_window_limit THEN b
    ELSE [b EXCEPT !.window = b.window \o value,
                   !.sliding_window_off = b.sliding_window_off + Len(value)]

\* sliding_window[k .. k + n - 1], 0-based, inside the first 32768 bytes
WindowBytes(b, k, n) ==
    [ j \in 1..n |-> IF k + j <= Len(b.window) THEN b.window[k + j] ELSE 0 ]

RECURSIVE DrainCodeBuf(_, _)
\* while(buf->code_buf_bits) { header[k++] = code_buf & 255; code_buf >>= 8; code_buf_bits -= 8; }
\* (code_buf_bits is a multiple of 8, at most 32, here: header[4] holds every byte drained)
DrainCodeBuf(b, header) ==
    IF b.code_buf_bits = 0 \/ Len(header) >= 4 THEN [ b |-> b, header |-> header ]
    ELSE DrainCodeBuf([b EXCEPT !.code_buf = Shr(b.code_buf, 8),
                                !.code_buf_bits = b.code_buf_bits - 8],
                      Append(header, LowBits(b.code_buf, 8)))

RECURSIVE FillHeader(_, _, _)
\* while(k < 4) header[k++] = zbuf_get_byte(buf);
FillHeader(b, s, header) ==
    IF Len(header) >= 4 THEN [ b |-> b, header |-> header ]
    ELSE LET g == zbuf_get_byte(b, s) IN FillHeader(g.b, s, Append(header, g.v))

\* png_parse_uncompressed_block: the bit reader and the image info after it.
\* len and nlen are int; ~(nlen) is -nlen - 1.
png_parse_uncompressed_block(b, s, inf, alloc_ok) ==
    LET b1 == IF b.code_buf_bits % 8 # 0
              THEN zbuf_get_n_bits(b, s, b.code_buf_bits % 8).b ELSE b
        d  == DrainCodeBuf(b1, << >>)
        f  == FillHeader(d.b, s, d.header)
        len  == f.header[2] * 256 + f.header[1]
        nlen == f.header[4] * 256 + f.header[3]
    IN  IF len # (-nlen - 1)
        THEN [ b |-> f.b, info |-> [inf EXCEPT !.error = LIBIMAGE_PNG_ERROR_CORRUPTED_FILE] ]
        ELSE IF f.b.buf + len > f.b.buf_end
        THEN [ b |-> f.b, info |-> [inf EXCEPT !.error = LIBIMAGE_PNG_ERROR_CORRUPTED_FILE] ]
        ELSE [ b |-> f.b, info |-> write_uncompressed_data(f.b, s, inf, len, alloc_ok) ]

----------------------------------------------------------------------------
(* Huffman tables, src/src/png.c and src/src/huffman.h.  The entries array  *)
(* of a table is kept as the set of the writes build_huffman made to it,    *)
(* one per symbol: an entry no write reached still holds what malloc left   *)
(* there.                                                                   *)

\* png_length_from_spec: << code, bits_used >> of the symbols 257..285
png_length_from_spec ==
    << << 3, 0 >>, << 4, 0 >>, << 5, 0 >>, << 6, 0 >>, << 7, 0 >>, << 8, 0 >>, << 9, 0 >>,
       << 10, 0 >>, << 11, 1 >>, << 13, 1 >>, << 15, 1 >>, << 17, 1 >>, << 19, 2 >>,
       << 23, 2 >>, << 27, 2 >>, << 31, 2 >>, << 35, 3 >>, << 43, 3 >>, << 51, 3 >>,
       << 59, 3 >>, << 67, 4 >>, << 83, 4 >>, << 99, 4 >>, << 115, 4 >>, << 131, 5 >>,
       << 163, 5 >>, << 195, 5 >>, << 227, 5 >>, << 258, 0 >> >>

\* png_dist_from_spec: << code, bits_used >> of the distance symbols 0..29
png_dist_from_spec ==
    << << 1, 0 >>, << 2, 0 >>, << 3, 0 >>, << 4, 0 >>, << 5, 1 >>, << 7, 1 >>, << 9, 2 >>,
       << 13, 2 >>, << 17, 3 >>, << 25, 3 >>, << 33, 4 >>, << 49, 4 >>, << 65, 5 >>,
       << 97, 5 >>, << 129, 6 >>, << 193, 6 >>, << 257, 7 >>, << 385, 7 >>, << 513, 8 >>,
       << 769, 8 >>, << 1025, 9 >>, << 1537, 9 >>, << 2049, 10 >>, << 3073, 10 >>,
       << 4097, 11 >>, << 6145, 11 >>, << 8193, 12 >>, << 12289, 12 >>, << 16385, 13 >>,
       << 24577, 13 >> >>

\* (value >> i) & 0x1
BitOf(value, i) == (value \div Pow2(i)) % 2

\* res |= bit << i
OrBit(res, bit, i) == IF bit = 1 /\ BitOf(res, i) = 0 THEN res + Pow2(i) ELSE res

RECURSIVE bit_reverse_from(_, _, _, _)
\* the loop of bit_reverse from index i on
bit_reverse_from(value, bits, i, res) ==
    IF i > bits \div 2 THEN res
    ELSE LET inv == bits - (i + 1)
         IN  bit_reverse_from(value, bits, i + 1,
                              OrBit(OrBit(res, BitOf(value, i), inv), BitOf(value, inv), i))

\* bit_reverse, bits >= 1
bit_reverse(value, bits) == bit_reverse_from(value, bits, 0, 0)

\* new_huffman: alloc_ok is the outcome of the malloc of the entries
new_huffman(max_code_in_bits, alloc_ok) ==
    [ max_code_in_bits |-> max_code_in_bits, entry_count |-> Pow2(max_code_in_bits),
      entries |-> IF alloc_ok THEN 1 ELSE 0, writes |-> {} ]

\* free_huffman_entries
free_huffman_entries(h) == [h EXCEPT !.entries = 0]

\* no table
NoHuffman == [ max_code_in_bits |-> 0, entry_count |-> 0, entries |-> 0, writes |-> {} ]

\* next_code[0] = 0; next_code[i] = next_code[i - 1] + (code_len_hist[i - 1] << 1)
RECURSIVE next_code_from(_, _)
next_code_from(code_len_hist, i) ==
    IF i = 0 THEN 0 ELSE next_code_from(code_len_hist, i - 1) + code_len_hist[i - 1] * 2

\* build_huffman on the code lengths code_len_bits (each below 19):
\* code_len_hist[0] = 0; next_code[i] = next_code[i - 1] + (code_len_hist[i - 1] << 1);
\* then, in the order of the symbols, code = next_code[c_len_bits]++: a symbol gets
\* next_code of its length plus the number of symbols of that length before it
\* (f @@ << >> is f, held as a table of its values)
build_huffman(h, code_len_bits) ==
    LET code_len_hist == [ l \in 0..18 |->
                             IF l = 0 THEN 0
                             ELSE Cardinality({ i \in 1..Len(code_len_bits) :
                                                  code_len_bits[i] = l }) ] @@ << >>
        next_code == [ i \in 0..18 |-> next_code_from(code_len_hist, i) ] @@ << >>
        used == { i \in 0..(Len(code_len_bits) - 1) : code_len_bits[i + 1] > 0 }
    IN  [h EXCEPT !.writes =
            { [ code |-> next_code[code_len_bits[i + 1]]
                         + Cardinality({ j \in used :
                                           j < i /\ code_len_bits[j + 1] = code_len_bits[i + 1] }),
                bits_used |-> code_len_bits[i + 1],
                symbol |-> i ] : i \in used }]

\* the entry that holds what malloc left
Unwritten == [ code |-> -1, bits_used |-> -1, symbol |-> -1 ]

\* huff->entries[entry_index]: a symbol with code c and length n wrote the entries
\* bit_reverse((c << shift_bits) | e, max) for every e below 1 << shift_bits, that is the
\* indices whose reversal has c (mod 2^n) above its low shift_bits bits; the write of the
\* highest symbol is the last and stays
huffman_entry(h, entry_index) ==
    Only({ IF hits = {} THEN Unwritten
           ELSE CHOOSE w \in hits : \A v \in hits : v.symbol <= w.symbol :
             hits \in { { w \in h.writes :
                            big \div Pow2(h.max_code_in_bits - w.bits_used)
                                = w.code % Pow2(w.bits_used) } :
                        big \in { bit_reverse(entry_index, h.max_code_in_bits) } } })

\* decode_huffman: max_code_in_bits bits are taken from the bit reader; fresh is the code
\* field of an entry that was never written
decode_huffman(h, b, s, fresh) ==
    Only({ [ v |-> IF ge.e = Unwritten THEN fresh ELSE ge.e.symbol, b |-> ge.g.b,
             entry_index |-> ge.g.v ] :
             ge \in { [ g |-> g, e |-> huffman_entry(h, g.v) ] :
                        g \in { zbuf_get_n_bits(b, s, h.max_code_in_bits) } } })

\* the bytes of the int bit_count in memory, 0 <= bit_count < 256
IntBytes(bit_count, little) ==
    IF little THEN << bit_count, 0, 0, 0 >> ELSE << 0, 0, 0, bit_count >>

\* lit_bit_count of png_parse_huffman_fixed_block: the bit count of entry bit_index
lit_bit_count(bit_index) ==
    IF bit_index <= 143 THEN 8
    ELSE IF bit_index <= 255 THEN 9
    ELSE IF bit_index <= 279 THEN 7
    ELSE IF bit_index <= 287 THEN 8
    ELSE 5

\* the loops of png_parse_huffman_fixed_block: sizeof(bit_count) = 4 bytes of the int
\* bit_count are appended for each of the 320 entries; an append that does not fit the
\* window is dropped, and so is every append behind it
fixed_block_append(b, little) ==
    LET room    == (b.sliding_window_limit - b.sliding_window_off) \div 4
        entries == IF room < 320 THEN room ELSE 320
    IN  zbuf_append_to_sliding_window(b,
            [ k \in 1..(4 * entries) |->
                IntBytes(lit_bit_count((k - 1) \div 4), little)[((k - 1) % 4) + 1] ])

\* the code lengths decompress_huffman_block hands to build_huffman: size_lit bytes at
\* the start of the sliding window, then size_dist bytes behind them
png_parse_huffman_fixed_block(b, little) ==
    LET b1 == fixed_block_append(b, little)
    IN  [ b |-> b1, lit_lens |-> WindowBytes(b1, 0, 288), dist_lens |-> WindowBytes(b1, 288, 32) ]

----------------------------------------------------------------------------
(* The inputs of the model: signatures, chunks and the contents of          *)
(* uninitialised memory                                                     *)

\* a 32-bit value as four big-endian bytes, as a PNG encoder writes it
BE32(v) == << v \div 16777216, (v \div 65536) % 256, (v \div 256) % 256, v % 256 >>

\* length, type, payload, CRC (CRC checking is compiled out: LIBIMAGE_PNG_CHECK_CRC is not defined)
Encode(c) == BE32(c.len) \o c.type \o c.payload \o << 0, 0, 0, 0 >>

IhdrPayload(w, h, bd, ct) == BE32(w) \o BE32(h) \o << bd, ct, 0, 0, 0 >>

NAME_IHDR == << 73, 72, 68, 82 >>
NAME_gAMA == << 103, 65, 77, 65 >>
NAME_PLTE == << 80, 76, 84, 69 >>
NAME_IDAT == << 73, 68, 65, 84 >>
NAME_IEND == << 73, 69, 78, 68 >>
NAME_tEXt == << 116, 69, 88, 116 >>

Chunk(name, payload) == [ len |-> Len(payload), type |-> name, payload |-> payload ]

\* IHDR chunks: one accepted header per colour type, rejected headers, a short header
IhdrChunks ==
    { Chunk(NAME_IHDR, IhdrPayload(66048, 131328, cb[2], cb[1])) :
          cb \in { << 0, 1 >>, << 2, 8 >>, << 3, 8 >>, << 4, 8 >>, << 6, 16 >> } }
    \cup { Chunk(NAME_IHDR, IhdrPayload(1, 1, 8, 0)),
           Chunk(NAME_IHDR, IhdrPayload(0, 1, 8, 2)),
           Chunk(NAME_IHDR, << 0, 0, 0, 1, 0, 0, 0, 1, 8, 2, 0, 0 >>) }

\* IDAT payloads: pieces of zlib streams whose block headers are stored (BTYPE 0)
\* or reserved (BTYPE 3), and a stream of one final block with BTYPE 1 that holds the
\* 8-bit codes 1, 66, 0, 64, each followed by 7 zero bits
IdatPayloads ==
    { << >>, << 120, 1, 7, 0 >>, << 120, 1, 6, 0 >>,
      << 120, 1, 3, 4, 8, 1, 0, 0, 2, 0 >> }

ChunkDomain ==
    IhdrChunks
    \cup { Chunk(NAME_gAMA, BE32(100000)) }
    \cup { Chunk(NAME_PLTE, << 1, 2, 3 >>) }
    \cup { Chunk(NAME_IDAT, p) : p \in IdatPayloads }
    \cup { Chunk(NAME_IEND, << >>) }
    \cup { Chunk(NAME_tEXt, << >>) }

\* the first eight bytes of the input
Signatures ==
    { png_file_sig, << 136, 80, 78, 71, 13, 10, 26, 10 >>, << 137, 80, 78, 71, 13, 10, 26, 11 >> }

\* contents of a byte of freshly allocated memory
UninitBytes == { 0, 7 }

\* what the int run_val holds before it is assigned, and the byte in front of the
\* sliding window
UninitRunVals == { 7, 8 }

\* what the code field of an entry of a Huffman table holds that was never written
UninitCodes == { 1, 256, 286 }

\* what a read behind the end of png_length_from_spec or png_dist_from_spec finds:
\* << code, bits_used >>
OobEntries == { << 3, 0 >>, << 0, 1 >> }

\* n bits of v as the bit reader serves them, least significant first
Bits(v, n) == [ k \in 1..n |-> (v \div Pow2(k - 1)) % 2 ]

\* the n bits of the Huffman code c, first bit of the code first
CodeBits(c, n) == [ k \in 1..n |-> (c \div Pow2(n - k)) % 2 ]

\* the 15 bits decode_huffman takes for a symbol with the 8-bit code c
Sym8(c) == CodeBits(c, 8) \o Bits(0, 7)

\* the bytes that hold the sequence bits, least significant bit first, zero padded
PackBytes(bits) ==
    [ j \in 1..((Len(bits) + 7) \div 8) |->
        LET bit(k) == IF 8 * (j - 1) + k <= Len(bits) THEN bits[8 * (j - 1) + k] ELSE 0
        IN  bit(1) + 2 * bit(2) + 4 * bit(3) + 8 * bit(4) + 16 * bit(5) + 32 * bit(6)
            + 64 * bit(7) + 128 * bit(8) ]

\* a zlib stream of one final block with BTYPE 1
FixedStream(items) == << 120, 1 >> \o PackBytes(<< 1, 1, 0 >> \o items)

RECURSIVE Syms(_)
\* the symbols with the 8-bit codes cs
Syms(cs) == IF cs = << >> THEN << >> ELSE Sym8(Head(cs)) \o Syms(Tail(cs))

\* On a little-endian host the table of a fixed block gives the 8-bit code c the symbol
\* 4c: codes 0..63 are literals, 64 is the end of the block, 65 is length 6, the
\* distance code 0 is distance 1 and the distance code 1 is distance 5 + one extra bit.
\* The code 255 reaches an entry build_huffman never wrote.
HuffStreams ==
    { FixedStream(Syms(<< 1, 65, 0, 64 >>)),
      FixedStream(Syms(<< 1, 2, 65, 1 >>) \o Bits(0, 1) \o Syms(<< 64 >>)),
      FixedStream(Syms(<< 1, 2, 3, 4, 5, 65, 1 >>) \o Bits(0, 1) \o Syms(<< 64 >>)),
      FixedStream(Syms(<< 1, 2, 3, 4, 5, 6, 65, 1 >>) \o Bits(1, 1) \o Syms(<< 64 >>)),
      FixedStream(Syms(<< 255, 0, 64 >>)),
      FixedStream(Syms(<< 71, 0, 64 >>)),
      FixedStream(Syms(<< 3 >>)) }

RECURSIVE LenBits(_)
\* the 3-bit code lengths ls, as a dynamic block header holds them
LenBits(ls) == IF ls = << >> THEN << >> ELSE Bits(Head(ls), 3) \o LenBits(Tail(ls))

\* a zlib stream that ends inside one final block with BTYPE 2: HLIT = 257, HDIST = 1 and
\* the lengths ls of the code length symbols 16, 17, 18, 0, 8, ... (four lengths or more)
DynamicStream(ls) ==
    << 120, 1 >>
    \o PackBytes(<< 1, 0, 1 >> \o Bits(0, 5) \o Bits(0, 5) \o Bits(Len(ls) - 4, 4) \o LenBits(ls))

\* streams that stop behind the header of a dynamic block, so that the bit reader serves
\* zero bits to the code length loop: the one code length symbol with a 1-bit code, which
\* the zero bits decode to, is 0, 18, 8, 16 or 17
DynamicStreams ==
    { DynamicStream(<< 0, 0, 0, 1 >>),
      DynamicStream(<< 0, 0, 1, 0 >>),
      DynamicStream(<< 0, 0, 0, 0, 1 >>),
      DynamicStream(<< 1, 0, 0, 0 >>),
      DynamicStream(<< 0, 1, 0, 0 >>) }

\* contents of the caller's uninitialised width, height and error; data is 1 when the
\* pointer libimage_process_data returned is not NULL
UninitOut ==
    { [ width |-> << 0, 0, 0, 0 >>, height |-> << 0, 0, 0, 0 >>, error |-> 0, data |-> 0 ],
      [ width |-> << 170, 170, 170, 170 >>, height |-> << 85, 85, 85, 85 >>, error |-> 21845,
        data |-> 0 ] }

----------------------------------------------------------------------------
(* The checks of the chunk loop of libimage_process_png: the error code     *)
(* each case returns with, or 0 when the case goes on                      *)

\* ihdr_check without the first_chunk test
ihdr_check_any_position(first, data_len) ==
    IF data_len # 13 THEN LIBIMAGE_PNG_ERROR_CORRUPT_IHDR ELSE 0

\* case IHDR, before process_ihdr_chunk
ihdr_check(first, data_len) ==
    IF first = 0 THEN LIBIMAGE_PNG_ERROR_MULTIPLE_IHDR
    ELSE IF data_len # 13 THEN LIBIMAGE_PNG_ERROR_CORRUPT_IHDR
    ELSE 0

\* gama_check without the got_gama_chunk test
gama_check_repeatable(first, got_plte, got_gama) ==
    IF first # 0 THEN LIBIMAGE_PNG_ERROR_IHDR_NOT_FOUND
    ELSE IF got_plte # 0 THEN LIBIMAGE_PNG_ERROR_GAMA_AFTER_PLTE
    ELSE 0

\* case gAMA
gama_check(first, got_plte, got_gama) ==
    IF first # 0 THEN LIBIMAGE_PNG_ERROR_IHDR_NOT_FOUND
    ELSE IF got_plte # 0 THEN LIBIMAGE_PNG_ERROR_GAMA_AFTER_PLTE
    ELSE IF got_gama # 0 THEN LIBIMAGE_PNG_ERROR_MULTIPLE_GAMA
    ELSE 0

\* plte_check forbidding the palette for greyscale only
plte_check_greyscale_only(first, color_type) ==
    IF first # 0 THEN LIBIMAGE_PNG_ERROR_IHDR_NOT_FOUND
    ELSE IF color_type = PNG_COLOR_TYPE_GREYSCALE
    THEN LIBIMAGE_PNG_ERROR_UNEXPECTED_PLTE
    ELSE 0

\* case PLTE
plte_check(first, color_type) ==
    IF first # 0 THEN LIBIMAGE_PNG_ERROR_IHDR_NOT_FOUND
    ELSE IF color_type = PNG_COLOR_TYPE_GREYSCALE
            \/ color_type = PNG_COLOR_TYPE_GREYSCALE_WITH_ALPHA
    THEN LIBIMAGE_PNG_ERROR_UNEXPECTED_PLTE
    ELSE 0

\* iend_check without the palette test
iend_check_no_palette_test(first, got_idat, color_type, got_plte) ==
    IF first # 0 THEN LIBIMAGE_PNG_ERROR_IHDR_NOT_FOUND
    ELSE IF got_idat = 0 THEN LIBIMAGE_PNG_ERROR_NO_IDAT
    ELSE 0

\* iend_check without the test of got_idat_chunk
iend_check_no_idat_test(first, got_idat, color_type, got_plte) ==
    IF first # 0 THEN LIBIMAGE_PNG_ERROR_IHDR_NOT_FOUND
    ELSE IF color_type = PNG_COLOR_TYPE_INDEXED_COLOUR /\ got_plte = 0
    THEN LIBIMAGE_PNG_ERROR_NO_PLTE
    ELSE 0

\* case IEND, before handle_png_data
iend_check(first, got_idat, color_type, got_plte) ==
    IF first # 0 THEN LIBIMAGE_PNG_ERROR_IHDR_NOT_FOUND
    ELSE IF got_idat = 0 THEN LIBIMAGE_PNG_ERROR_NO_IDAT
    ELSE IF color_type = PNG_COLOR_TYPE_INDEXED_COLOUR /\ got_plte = 0
    THEN LIBIMAGE_PNG_ERROR_NO_PLTE
    ELSE 0

\* other_check answering as the named cases do for a first chunk
other_check_ihdr_not_found(type) == LIBIMAGE_PNG_ERROR_IHDR_NOT_FOUND

\* default
other_check(type) == LIBIMAGE_PNG_ERROR_INVALID_FILE

\* size_data after the growth of the IDAT case
RECURSIVE Doubled(_, _)
Doubled(size, need) == IF need > size THEN Doubled(size * 2, need) ELSE size

GrownSize(sd, cd_offset, data_len) ==
    LET first == IF sd = 0
                 THEN (IF data_len > IDAT_DEFAULT_BLOCK_SIZE THEN data_len
                       ELSE IDAT_DEFAULT_BLOCK_SIZE)
                 ELSE sd
    IN  Doubled(first, cd_offset + data_len)

\* copy_to_buffer(dst, src, size): the size bytes at offset src of d, as memcpy stores them
copy_to_buffer(d, src, size) == [ k \in 1..size |-> ByteAt(d, src + k - 1) ]

\* the bytes of compressed_data[cd_offset .. cd_offset + data_len) after the append of
\* the IDAT case: copy_to_buffer stores end_chunk_data - start_chunk_data bytes, the
\* rest keeps the contents `fresh` of the allocated memory
idat_append(d, c, fresh) ==
    LET n == c.end_chunk_data - c.start_chunk_data
    IN  copy_to_buffer(d, c.start_chunk_data, n) \o [ k \in 1..(c.data_len - n) |-> fresh ]

----------------------------------------------------------------------------
(* The decode: libimage_process_data, libimage_process_png, handle_png_data *)

\* the uint32_t 0.  In info, data is 1 while the pointer to the IDAT accumulator is not
\* NULL (info->data of libimage.c, info->compressed_data of png.c), else 0.
Zero32 == << 0, 0, 0, 0 >>

info0 ==
    [ width |-> Zero32, height |-> Zero32, gamma |-> Zero32, color_type |-> 0,
      compressed_data |-> << >>, cd_offset |-> 0, cd_size |-> 0,
      uncompressed_data |-> << >>, un_offset |-> 0, un_size |-> 0, error |-> 0,
      data |-> 0 ]

\* decompress_huffman_block before its first call: no table, no symbol decoded.
\* code_huff, hlit, hdist, total, n and run_val are the locals huff, hlit, hdist, total,
\* n and run_val of png_parse_huffman_dynamic_block; code_sym, code_extra and n_before
\* are the last symbol its loop decoded, the extra bits read for it and n before it.
\* lens and sym are the code lengths and the symbol of a table checked on its own.
huff0 ==
    [ lit |-> NoHuffman, dist |-> NoHuffman, lens |-> << >>, sym |-> -1,
      lit_len |-> -1, encoded_len |-> -1, dist_code |-> -1, actual_len |-> -1,
      distance |-> -1, old_end |-> -1, source |-> 0,
      code_huff |-> NoHuffman, hlit |-> 0, hdist |-> 0, total |-> 0, n |-> 0, run_val |-> 0,
      code_sym |-> -1, code_extra |-> -1, n_before |-> 0, written |-> 0 ]

\* no earlier decode
NoTwin == [ error |-> -1, width |-> << >>, height |-> << >>, output |-> << >> ]

chunk0 ==
    [ data_len |-> 0, type |-> Zero32, start_chunk_data |-> 0, end_chunk_data |-> 0,
      crc |-> Zero32 ]

\* the state before libimage_process_data, but for the input and the host
Fresh ==
    /\ r = [ cursor |-> 0, error |-> 0, type |-> 0 ]
    /\ info = info0
    /\ first_chunk = 1
    /\ got_idat_chunk = 0
    /\ got_plte_chunk = 0
    /\ got_gama_chunk = 0
    /\ size_data = 0
    /\ chunk = chunk0
    /\ loop_count = 0
    /\ zlib_buf = zbuf_init(0, 0, TRUE)
    /\ end = 0
    /\ out \in UninitOut
    /\ seen = << >>
    /\ ihdr_payload = << >>
    /\ idat_payloads = << >>
    /\ deflate_runs = 0
    /\ huff = huff0
    /\ twin = NoTwin

Init ==
    /\ data \in { Buffer(sig) : sig \in Signatures }
    /\ hostLittle \in BOOLEAN
    /\ pc = "start"
    /\ Fresh

\* libimage_process_data up to the call of libimage_process_png
Start ==
    /\ pc = "start"
    /\ LET r1 == check_data_header(data, [ cursor |-> 0, error |-> 0, type |-> r.type ], hostLittle)
       IN  /\ r' = r1
           /\ IF r1.error # 0
              THEN /\ out' = [ width |-> Zero32, height |-> Zero32, error |-> r1.error,
                                data |-> 0 ]
                   /\ pc' = "done"
              ELSE /\ out' = [ width |-> Zero32, height |-> Zero32, error |-> 0,
                                data |-> 0 ]
                   /\ pc' = "chunks"
    /\ UNCHANGED << data, hostLittle, twin, info, first_chunk, got_idat_chunk, got_plte_chunk,
                    got_gama_chunk, size_data, chunk, loop_count, zlib_buf, end,
                    seen, ihdr_payload, idat_payloads, deflate_runs, huff >>

\* one iteration of the chunk loop reads chunk c from the input
Iter(c) ==
    /\ pc = "chunks"
    /\ loop_count < MaxChunks
    /\ data' = [ base |-> r.cursor, bytes |-> Encode(c) ]
    /\ chunk' = read_png_chunk(data', r, hostLittle).c
    /\ loop_count' = loop_count + 1
    /\ seen' = Append(seen, c.type)
    /\ UNCHANGED << hostLittle, twin, out >>

\* the reader after read_png_chunk
AfterRead == read_png_chunk(data', r, hostLittle).r

\* r->error = err; return;
Fail(err) ==
    /\ r' = [AfterRead EXCEPT !.error = err]
    /\ pc' = "ret"

\* the body of case IHDR, for the chunk read into chunk'
IhdrCase ==
    LET err == ihdr_check(first_chunk, chunk'.data_len)
    IN  IF err # 0
        THEN Fail(err) /\ UNCHANGED << info, first_chunk, ihdr_payload >>
        ELSE LET p == process_ihdr_chunk(chunk', data', AfterRead, info, hostLittle)
             IN  /\ r' = p.r
                 /\ info' = p.info
                 /\ IF p.r.error # 0
                    THEN pc' = "ret" /\ UNCHANGED << first_chunk, ihdr_payload >>
                    ELSE /\ pc' = "chunks"
                         /\ first_chunk' = 0
                         /\ ihdr_payload' = SubSeq(data'.bytes, 9, 8 + chunk'.data_len)

\* case IHDR
IhdrChunk ==
    \E c \in ChunkDomain :
        /\ Iter(c)
        /\ chunk'.type = TYPE_IHDR
        /\ IhdrCase
        /\ UNCHANGED << got_idat_chunk, got_plte_chunk, got_gama_chunk, size_data, zlib_buf,
                        end, idat_payloads, deflate_runs, huff >>

\* case gAMA
GamaChunk ==
    \E c \in ChunkDomain :
        /\ Iter(c)
        /\ chunk'.type = TYPE_gAMA
        /\ UNCHANGED << first_chunk, got_idat_chunk, got_plte_chunk, size_data, zlib_buf,
                        end, ihdr_payload, idat_payloads, deflate_runs, huff >>
        /\ LET err == gama_check(first_chunk, got_plte_chunk, got_gama_chunk)
           IN  IF err # 0
               THEN Fail(err) /\ UNCHANGED << info, got_gama_chunk >>
               ELSE /\ info' = [info EXCEPT !.gamma =
                               u32_endian_swap(Load32(data', chunk'.start_chunk_data, hostLittle),
                                               hostLittle)]
                    /\ got_gama_chunk' = 1
                    /\ r' = AfterRead
                    /\ pc' = "chunks"

\* case PLTE
PlteChunk ==
    \E c \in ChunkDomain :
        /\ Iter(c)
        /\ chunk'.type = TYPE_PLTE
        /\ UNCHANGED << info, first_chunk, got_idat_chunk, got_gama_chunk, size_data, zlib_buf,
                        end, ihdr_payload, idat_payloads, deflate_runs, huff >>
        /\ LET err == plte_check(first_chunk, info.color_type)
           IN  IF err # 0
               THEN Fail(err) /\ UNCHANGED got_plte_chunk
               ELSE /\ got_plte_chunk' = 1
                    /\ r' = AfterRead
                    /\ pc' = "chunks"

\* the body of case IDAT, for the chunk read into chunk'
IdatCase(c, alloc_ok, fresh) ==
    /\ UNCHANGED << first_chunk, got_plte_chunk, got_gama_chunk, zlib_buf, end,
                    ihdr_payload, deflate_runs, huff >>
    /\ IF first_chunk # 0
       THEN /\ Fail(LIBIMAGE_PNG_ERROR_IHDR_NOT_FOUND)
            /\ UNCHANGED << info, got_idat_chunk, size_data, idat_payloads >>
       ELSE /\ got_idat_chunk' = 1
            /\ IF chunk'.data_len > IDAT_SIZE_LIMIT
               THEN /\ Fail(LIBIMAGE_PNG_ERROR_IDAT_SIZE_LIMIT)
                    /\ UNCHANGED << info, size_data, idat_payloads >>
               ELSE LET grow == info.cd_offset + chunk'.data_len > size_data
                        sd   == IF grow
                                THEN GrownSize(size_data, info.cd_offset, chunk'.data_len)
                                ELSE size_data
                    IN  /\ size_data' = sd
                        /\ IF grow /\ ~alloc_ok
                           THEN /\ Fail(LIBIMAGE_ERROR_MEMORY_ERROR)
                                /\ UNCHANGED << info, idat_payloads >>
                           ELSE IF chunk'.end_chunk_data - chunk'.start_chunk_data < 0
                           THEN \* memcpy with size (size_t)-1
                                /\ pc' = "crash"
                                /\ r' = AfterRead
                                /\ info' = [info EXCEPT !.cd_size = sd, !.data = 1]
                                /\ UNCHANGED idat_payloads
                           ELSE /\ info' = [info EXCEPT
                                      !.cd_size = sd,
                                      !.data = 1,
                                      !.compressed_data =
                                          info.compressed_data \o idat_append(data', chunk', fresh),
                                      !.cd_offset = info.cd_offset + chunk'.data_len]
                                /\ idat_payloads' = idat_payloads \o c.payload
                                /\ r' = AfterRead
                                /\ pc' = "chunks"

\* case IDAT
IdatChunk ==
    \E c \in ChunkDomain :
        /\ Iter(c)
        /\ chunk'.type = TYPE_IDAT
        /\ \E alloc_ok \in BOOLEAN, fresh \in UninitBytes : IdatCase(c, alloc_ok, fresh)

\* the body of case IEND: the checks, then handle_png_data up to its block loop
IendCase(alloc_ok) ==
    /\ UNCHANGED << first_chunk, got_idat_chunk, got_plte_chunk, got_gama_chunk, size_data,
                    ihdr_payload, idat_payloads, huff >>
    /\ LET err == iend_check(first_chunk, got_idat_chunk, info.color_type, got_plte_chunk)
       IN  IF err # 0
           THEN Fail(err) /\ UNCHANGED << info, zlib_buf, end, deflate_runs >>
           ELSE LET zb == zbuf_parse_header(zbuf_init(info.cd_offset, 1, alloc_ok),
                                            info.compressed_data)
                IN  /\ deflate_runs' = deflate_runs + 1
                    /\ zlib_buf' = zb
                    /\ end' = 0
                    /\ IF zb.error # 0
                       THEN /\ info' = [info EXCEPT !.error = zb.error]
                            /\ r' = [AfterRead EXCEPT !.error = zb.error]
                            /\ pc' = "ret"
                       ELSE /\ info' = info
                            /\ r' = AfterRead
                            /\ pc' = "deflate"

\* case IEND
IendChunk ==
    \E c \in ChunkDomain :
        /\ Iter(c)
        /\ chunk'.type = TYPE_IEND
        /\ \E alloc_ok \in BOOLEAN : IendCase(alloc_ok)

\* default: any other chunk type
OtherChunk ==
    \E c \in ChunkDomain :
        /\ Iter(c)
        /\ chunk'.type \notin { TYPE_IHDR, TYPE_gAMA, TYPE_PLTE, TYPE_IDAT, TYPE_IEND }
        /\ Fail(other_check(chunk'.type))
        /\ UNCHANGED << info, first_chunk, got_idat_chunk, got_plte_chunk, got_gama_chunk,
                        size_data, zlib_buf, end, ihdr_payload, idat_payloads, deflate_runs, huff >>

\* end = zbuf_get_n_bits(1); type = zbuf_get_n_bits(2);
BlockHeader ==
    LET g1 == zbuf_get_n_bits(zlib_buf, info.compressed_data, 1)
        g2 == zbuf_get_n_bits(g1.b, info.compressed_data, 2)
    IN  [ end |-> g1.v, type |-> g2.v, b |-> g2.b ]

\* the loop condition while(!end), then zbuf_deinit and the return into the IEND case
LoopOrLeave(b, e, inf) ==
    IF e = 0
    THEN /\ zlib_buf' = b
         /\ pc' = "deflate"
         /\ r' = r
    ELSE /\ zlib_buf' = zbuf_deinit(b)
         /\ pc' = "ret"
         /\ r' = IF inf.error # 0 THEN [r EXCEPT !.error = inf.error] ELSE r

\* a block with BTYPE 3: continue
BlockReserved ==
    /\ pc = "deflate"
    /\ BlockHeader.type = 3
    /\ end' = BlockHeader.end
    /\ info' = info
    /\ LoopOrLeave(BlockHeader.b, BlockHeader.end, info)
    /\ UNCHANGED << data, hostLittle, twin, first_chunk, got_idat_chunk, got_plte_chunk,
                    got_gama_chunk, size_data, chunk, loop_count, out, seen, ihdr_payload,
                    idat_payloads, deflate_runs, huff >>

\* a block with BTYPE 0: png_parse_uncompressed_block
BlockStored ==
    \E alloc_ok \in BOOLEAN :
        /\ pc = "deflate"
        /\ BlockHeader.type = 0
        /\ end' = BlockHeader.end
        /\ LET p == png_parse_uncompressed_block(BlockHeader.b, info.compressed_data, info,
                                                 alloc_ok)
           IN  /\ info' = p.info
               /\ IF p.info.error # 0
                  THEN /\ zlib_buf' = p.b
                       /\ r' = [r EXCEPT !.error = p.info.error]
                       /\ pc' = "ret"
                  ELSE LoopOrLeave(p.b, BlockHeader.end, p.info)
        /\ UNCHANGED << data, hostLittle, twin, first_chunk, got_idat_chunk, got_plte_chunk,
                        got_gama_chunk, size_data, chunk, loop_count, out, seen, ihdr_payload,
                        idat_payloads, deflate_runs, huff >>

\* a block with BTYPE 1: png_parse_huffman_fixed_block up to the loop of
\* decompress_huffman_block.  build_huffman writes through the pointer new_huffman
\* returned: with a failed malloc the decode does not survive the first write.
BlockFixed ==
    \E ok_lit \in BOOLEAN, ok_dist \in BOOLEAN :
        /\ pc = "deflate"
        /\ BlockHeader.type = 1
        /\ end' = BlockHeader.end
        /\ LET p    == png_parse_huffman_fixed_block(BlockHeader.b, hostLittle)
               lit  == new_huffman(15, ok_lit)
               dist == new_huffman(15, ok_dist)
           IN  /\ zlib_buf' = p.b
               /\ IF ok_lit /\ ok_dist
                  THEN /\ huff' = [huff0 EXCEPT !.lit = build_huffman(lit, p.lit_lens),
                                                !.dist = build_huffman(dist, p.dist_lens)]
                       /\ pc' = "inflate"
                  ELSE /\ huff' = [huff0 EXCEPT !.lit = lit, !.dist = dist]
                       /\ pc' = "crashed"
        /\ UNCHANGED << data, hostLittle, twin, r, info, first_chunk, got_idat_chunk, got_plte_chunk,
                        got_gama_chunk, size_data, chunk, loop_count, out, seen, ihdr_payload,
                        idat_payloads, deflate_runs >>

\* the values the code field of the entry the next decode_huffman reads may hold
FreshCodes(h, b, s) ==
    IF huffman_entry(h, zbuf_get_n_bits(b, s, h.max_code_in_bits).v) = Unwritten
    THEN UninitCodes ELSE { 0 }

\* lit_len = decode_huffman(&lit_huff, buf)
LitLen(fresh) == decode_huffman(huff.lit, zlib_buf, info.compressed_data, fresh)

\* lit_len <= 255: one byte is written
HuffLiteral ==
    /\ pc = "inflate"
    /\ \E fresh \in FreshCodes(huff.lit, zlib_buf, info.compressed_data) :
        \E d \in { LitLen(fresh) } :
          /\ d.v <= 255
          /\ info.un_offset + 1 <= MaxOut
          /\ \E alloc_ok \in (IF info.un_size = 0 THEN BOOLEAN ELSE { TRUE }) :
                info' = write_uncompressed_value(info, d.v % 256, alloc_ok)
          /\ zlib_buf' = d.b
          /\ huff' = [huff EXCEPT !.lit_len = d.v]
          /\ UNCHANGED << data, hostLittle, twin, r, first_chunk, got_idat_chunk, got_plte_chunk,
                          got_gama_chunk, size_data, chunk, loop_count, end, out, pc, seen,
                          ihdr_payload, idat_payloads, deflate_runs >>

RECURSIVE copy_from_source(_, _, _, _)
\* while(actual_len--) write_uncompressed_data(buf, info, 1, source): source is not
\* advanced, every write copies the byte at source; the first fails reallocs fail
copy_from_source(inf, value, actual_len, fails) ==
    IF actual_len = 0 THEN inf
    ELSE copy_from_source(write_uncompressed_value(inf, value, fails = 0), value,
                          actual_len - 1, IF fails > 0 THEN fails - 1 ELSE 0)

\* table[index], or oob when index is behind the end of the table
spec_entry(table, index, oob) == IF index < Len(table) THEN table[index + 1] ELSE oob

\* code + extra bits of an entry << code, bits_used >> of the tables: the value v and the
\* bit reader after the extra bits
with_extra_bits(b, s, entry) ==
    IF entry[2] > 0
    THEN [ v |-> entry[1] + zbuf_get_n_bits(b, s, entry[2]).v,
           b |-> zbuf_get_n_bits(b, s, entry[2]).b ]
    ELSE [ v |-> entry[1], b |-> b ]

\* the byte at source = (uncompressed_data + un_offset) - distance: junk when source is
\* outside the bytes written
source_byte(inf, distance, junk) ==
    IF inf.un_size # 0 /\ distance >= 1 /\ distance <= inf.un_offset
    THEN inf.uncompressed_data[inf.un_offset - distance + 1] ELSE junk

\* lit_len >= 257: a length and a distance are decoded and actual_len bytes are written.
\* oob_len and oob_dist are what a read behind the end of the tables finds.
HuffCopy ==
    /\ pc = "inflate"
    /\ \E fresh \in FreshCodes(huff.lit, zlib_buf, info.compressed_data) :
        \E d \in { LitLen(fresh) } :
          /\ d.v >= 257
          /\ \E oob_len \in OobEntries, oob_dist \in OobEntries, junk \in UninitBytes :
              \E len \in { with_extra_bits(d.b, info.compressed_data,
                                           spec_entry(png_length_from_spec, d.v - 257, oob_len)) } :
                /\ info.un_offset + len.v <= MaxOut
                /\ \E fresh_dist \in FreshCodes(huff.dist, len.b, info.compressed_data) :
                    \E dd \in { decode_huffman(huff.dist, len.b, info.compressed_data,
                                               fresh_dist) } :
                      \E dist \in { with_extra_bits(dd.b, info.compressed_data,
                                        spec_entry(png_dist_from_spec, dd.v, oob_dist)) } :
                        /\ \E fails \in (IF info.un_size = 0 THEN { 0, len.v } ELSE { 0 }) :
                              info' = copy_from_source(info, source_byte(info, dist.v, junk),
                                                       len.v, fails)
                        /\ zlib_buf' = dist.b
                        /\ huff' = [huff EXCEPT !.lit_len = d.v,
                                                !.encoded_len = d.v - 257,
                                                !.actual_len = len.v,
                                                !.dist_code = dd.v,
                                                !.distance = dist.v,
                                                !.old_end = info.un_offset,
                                                !.source = info.un_offset - dist.v]
          /\ UNCHANGED << data, hostLittle, twin, r, first_chunk, got_idat_chunk, got_plte_chunk,
                          got_gama_chunk, size_data, chunk, loop_count, end, out, pc, seen,
                          ihdr_payload, idat_payloads, deflate_runs >>

\* lit_len == 256: break, the tables are freed and handle_png_data goes on
HuffEndOfBlock ==
    /\ pc = "inflate"
    /\ \E fresh \in FreshCodes(huff.lit, zlib_buf, info.compressed_data) :
        \E d \in { LitLen(fresh) } :
          /\ d.v = 256
          /\ IF info.error # 0
             THEN /\ zlib_buf' = d.b
                  /\ r' = [r EXCEPT !.error = info.error]
                  /\ pc' = "ret"
             ELSE LoopOrLeave(d.b, end, info)
          /\ huff' = [huff EXCEPT !.lit_len = 256, !.lit = free_huffman_entries(huff.lit),
                                  !.dist = free_huffman_entries(huff.dist),
                                  !.code_huff = free_huffman_entries(huff.code_huff)]
          /\ info' = info
          /\ UNCHANGED << data, hostLittle, twin, first_chunk, got_idat_chunk, got_plte_chunk,
                          got_gama_chunk, size_data, chunk, loop_count, end, out, seen,
                          ihdr_payload, idat_payloads, deflate_runs >>

\* code_len_alphabet of png_parse_huffman_dynamic_block
code_len_alphabet == << 16, 17, 18, 0, 8, 7, 9, 6, 10, 5, 11, 4, 12, 3, 13, 2, 14, 1, 15 >>

\* hlit, hdist and hclen of a dynamic block and the buffer behind them
dynamic_header(b, s) ==
    LET g1 == zbuf_get_n_bits(b, s, 5)
        g2 == zbuf_get_n_bits(g1.b, s, 5)
        g3 == zbuf_get_n_bits(g2.b, s, 4)
    IN  [ hlit |-> g1.v + 257, hdist |-> g2.v + 1, hclen |-> g3.v + 4, b |-> g3.b ]

RECURSIVE read_code_len_lens(_, _, _, _, _)
\* for(n = 0; n < hclen; n++) code_len_lens[code_len_alphabet[n]] = zbuf_get_n_bits(buf, 3),
\* from n on; code_len_lens is indexed from 1 here
read_code_len_lens(b, s, n, hclen, code_len_lens) ==
    IF n >= hclen THEN [ b |-> b, code_len_lens |-> code_len_lens ]
    ELSE LET g == zbuf_get_n_bits(b, s, 3)
         IN  read_code_len_lens(g.b, s, n + 1, hclen,
                 [code_len_lens EXCEPT ![code_len_alphabet[n + 1] + 1] = g.v])

\* a block with BTYPE 2: png_parse_huffman_dynamic_block up to its loop.  code_len_lens
\* and run_val are locals without an initialiser: each entry of code_len_lens the
\* header does not set holds junk, and so does run_val.
BlockDynamic ==
    /\ pc = "deflate"
    /\ BlockHeader.type = 2
    /\ end' = BlockHeader.end
    /\ \E alloc_ok \in BOOLEAN, junk \in UninitBytes, run_val \in UninitRunVals :
         \E h \in { dynamic_header(BlockHeader.b, info.compressed_data) } :
           \E l \in { read_code_len_lens(h.b, info.compressed_data, 0, h.hclen,
                                         [ k \in 1..19 |-> junk ]) } :
              /\ zlib_buf' = l.b
              /\ IF alloc_ok
                 THEN /\ huff' = [huff0 EXCEPT
                                     !.code_huff = build_huffman(new_huffman(7, TRUE),
                                                                 l.code_len_lens),
                                     !.hlit = h.hlit, !.hdist = h.hdist,
                                     !.total = h.hlit + h.hdist, !.run_val = run_val]
                      /\ pc' = "codelens"
                 ELSE /\ huff' = [huff0 EXCEPT !.code_huff = new_huffman(7, FALSE)]
                      /\ pc' = "crashed"
    /\ UNCHANGED << data, hostLittle, twin, r, info, first_chunk, got_idat_chunk,
                    got_plte_chunk, got_gama_chunk, size_data, chunk, loop_count, out, seen,
                    ihdr_payload, idat_payloads, deflate_runs >>

RECURSIVE append_run(_, _, _)
\* while(count--) zbuf_append_to_sliding_window(buf, (uint8_t*)&run_val, sizeof(run_val))
append_run(b, value, count) ==
    IF count = 0 THEN b
    ELSE Only({ append_run(b1, value, count - 1) :
                  b1 \in { zbuf_append_to_sliding_window(b, value) } })

\* the extra bits read for the code length symbol encoded_len
code_extra_bits(encoded_len) ==
    IF encoded_len = 16 THEN 2 ELSE IF encoded_len = 17 THEN 3
    ELSE IF encoded_len = 18 THEN 7 ELSE 0

\* buf->sliding_window[n - 1]: junk is what the byte before the window holds
window_before(b, n, junk) == IF n = 0 THEN junk ELSE WindowBytes(b, n - 1, 1)[1]

\* one iteration of while(n < total): a symbol of 19 or more is an error; else run_val
\* is set for a symbol up to 15 and for 16, the extra bits are read into run_len, and
\* while(encoded_len--) appends the int run_val and counts n up
CodeLenStep ==
    /\ pc = "codelens"
    /\ huff.n < huff.total
    /\ \E fresh \in FreshCodes(huff.code_huff, zlib_buf, info.compressed_data),
          junk \in (IF huff.n = 0 THEN UninitRunVals ELSE { 0 }) :
         \E d \in { decode_huffman(huff.code_huff, zlib_buf, info.compressed_data, fresh) } :
            IF d.v >= 19
            THEN /\ info' = [info EXCEPT !.error = LIBIMAGE_PNG_HUFFMAN_BAD_CODE_LENGTHS]
                 /\ r' = [r EXCEPT !.error = LIBIMAGE_PNG_HUFFMAN_BAD_CODE_LENGTHS]
                 /\ zlib_buf' = d.b
                 /\ huff' = [huff EXCEPT !.code_sym = d.v, !.code_extra = -1,
                                         !.n_before = huff.n]
                 /\ pc' = "ret"
            ELSE \E g \in { IF code_extra_bits(d.v) = 0 THEN [ v |-> -1, b |-> d.b ]
                            ELSE zbuf_get_n_bits(d.b, info.compressed_data,
                                                 code_extra_bits(d.v)) } :
                   \E run_val \in { IF d.v <= 15 THEN d.v
                                    ELSE IF d.v = 16 THEN window_before(d.b, huff.n, junk)
                                    ELSE huff.run_val } :
                      /\ zlib_buf' = append_run(g.b, IntBytes(run_val, hostLittle), d.v)
                      /\ huff' = [huff EXCEPT !.n = huff.n + d.v, !.run_val = run_val,
                                              !.code_sym = d.v, !.code_extra = g.v,
                                              !.n_before = huff.n]
                      /\ UNCHANGED << info, r, pc >>
    /\ UNCHANGED << data, hostLittle, twin, first_chunk, got_idat_chunk, got_plte_chunk,
                    got_gama_chunk, size_data, chunk, loop_count, end, out, seen,
                    ihdr_payload, idat_payloads, deflate_runs >>

\* n reached total: decompress_huffman_block(buf, info, hlit, hdist) up to its loop,
\* the tables built from hlit bytes at the start of the sliding window and hdist bytes
\* behind them
DynamicTables ==
    /\ pc = "codelens"
    /\ huff.n >= huff.total
    /\ \E ok_lit \in BOOLEAN, ok_dist \in BOOLEAN :
         IF ok_lit /\ ok_dist
         THEN /\ huff' = [huff EXCEPT
                             !.lit = build_huffman(new_huffman(15, TRUE),
                                                   WindowBytes(zlib_buf, 0, huff.hlit)),
                             !.dist = build_huffman(new_huffman(15, TRUE),
                                                    WindowBytes(zlib_buf, huff.hlit,
                                                                huff.hdist))]
              /\ pc' = "inflate"
         ELSE /\ huff' = [huff EXCEPT !.lit = new_huffman(15, ok_lit),
                                      !.dist = new_huffman(15, ok_dist)]
              /\ pc' = "crashed"
    /\ UNCHANGED << data, hostLittle, twin, r, info, first_chunk, got_idat_chunk,
                    got_plte_chunk, got_gama_chunk, size_data, chunk, loop_count, zlib_buf,
                    end, out, seen, ihdr_payload, idat_payloads, deflate_runs >>

\* libimage_process_data after libimage_process_png returned
Return ==
    /\ pc = "ret"
    /\ IF r.error # 0
       THEN /\ info' = [info EXCEPT !.data = 0]
            /\ out' = [out EXCEPT !.error = r.error, !.data = 0]
       ELSE /\ info' = info
            /\ out' = [out EXCEPT !.width = info.width, !.height = info.height,
                                  !.data = info.data]
    /\ pc' = "done"
    /\ UNCHANGED << data, hostLittle, twin, r, first_chunk, got_idat_chunk, got_plte_chunk,
                    got_gama_chunk, size_data, chunk, loop_count, zlib_buf, end,
                    seen, ihdr_payload, idat_payloads, deflate_runs, huff >>

Next ==
    \/ Start
    \/ IhdrChunk
    \/ GamaChunk
    \/ PlteChunk
    \/ IdatChunk
    \/ IendChunk
    \/ OtherChunk
    \/ BlockReserved
    \/ BlockStored
    \/ BlockFixed
    \/ HuffLiteral
    \/ HuffCopy
    \/ HuffEndOfBlock
    \/ Return

Spec == Init /\ [][Next]_vars

----------------------------------------------------------------------------
(* The chunk loop of src/src/libimage.c, the file that holds the driver: its  *)
(* IHDR, gAMA, PLTE and IDAT cases are those of png.c (info->data and        *)
(* memory_offset for compressed_data and cd_offset); its IEND and default    *)
(* cases differ                                                             *)

\* case IEND of libimage.c: the checks, then return
IendChunkLegacy ==
    \E c \in ChunkDomain :
        /\ Iter(c)
        /\ chunk'.type = TYPE_IEND
        /\ LET err == iend_check(first_chunk, got_idat_chunk, info.color_type, got_plte_chunk)
           IN  IF err # 0
               THEN Fail(err)
               ELSE r' = AfterRead /\ pc' = "ret"
        /\ UNCHANGED << info, first_chunk, got_idat_chunk, got_plte_chunk, got_gama_chunk,
                        size_data, zlib_buf, end, ihdr_payload, idat_payloads, deflate_runs, huff >>

\* default of libimage.c: goto bail, no error is set
OtherChunkLegacy ==
    \E c \in ChunkDomain :
        /\ Iter(c)
        /\ chunk'.type \notin { TYPE_IHDR, TYPE_gAMA, TYPE_PLTE, TYPE_IDAT, TYPE_IEND }
        /\ r' = AfterRead
        /\ pc' = "ret"
        /\ UNCHANGED << info, first_chunk, got_idat_chunk, got_plte_chunk, got_gama_chunk,
                        size_data, zlib_buf, end, ihdr_payload, idat_payloads, deflate_runs, huff >>

NextLegacy ==
    \/ Start
    \/ IhdrChunk
    \/ GamaChunk
    \/ PlteChunk
    \/ IdatChunk
    \/ IendChunkLegacy
    \/ OtherChunkLegacy
    \/ Return

SpecLegacy == Init /\ [][NextLegacy]_vars

----------------------------------------------------------------------------
(* IHDR validation on its own: the first chunk of the input is an IHDR      *)
(* chunk of length 13 whose fields range over whole bytes                   *)

\* (width, height) around 0 and LIBIMAGE_PNG_MAX_IMAGE_SIZE
Dimensions ==
    { << 1, 1 >>, << 66048, 131328 >>, << 0, 1 >>, << 1, 0 >>, << 0, 0 >>,
      << LIBIMAGE_PNG_MAX_IMAGE_SIZE, 1 >>, << 1, LIBIMAGE_PNG_MAX_IMAGE_SIZE >>,
      << LIBIMAGE_PNG_MAX_IMAGE_SIZE, LIBIMAGE_PNG_MAX_IMAGE_SIZE >>,
      << LIBIMAGE_PNG_MAX_IMAGE_SIZE + 1, 1 >>, << 1, LIBIMAGE_PNG_MAX_IMAGE_SIZE + 1 >>,
      << 0, LIBIMAGE_PNG_MAX_IMAGE_SIZE + 1 >>, << 2147483647, 1 >> }

\* the table of the PNG specification: colour type -> allowed bit depths
AllowedDepths(ct) ==
    CASE ct = 0 -> { 1, 2, 4, 8, 16 }
      [] ct = 2 -> { 8, 16 }
      [] ct = 3 -> { 1, 2, 4, 8 }
      [] ct = 4 -> { 8, 16 }
      [] ct = 6 -> { 8, 16 }
      [] OTHER  -> { }

\* bit depths and colour types: every small value, and the ends of the byte range
DepthBytes == 0..17 \cup { 32, 64, 128, 255 }

ColourBytes == 0..8 \cup { 128, 255 }

IhdrInputs ==
    { IhdrPayload(1, 1, bd, ct) : bd \in DepthBytes, ct \in ColourBytes }
    \cup { IhdrPayload(wh[1], wh[2], bd, ct) :
               wh \in Dimensions, bd \in { 1, 8, 16 }, ct \in { 0, 2, 3, 4, 6 } }

InitIhdr ==
    /\ \E p \in IhdrInputs : data = [ base |-> 8, bytes |-> Encode(Chunk(NAME_IHDR, p)) ]
    /\ hostLittle \in BOOLEAN
    /\ pc = "ihdr"
    /\ Fresh

\* the first iteration of the chunk loop on the IHDR chunk of the input
ValidateIhdr ==
    /\ pc = "ihdr"
    /\ data' = data
    /\ chunk' = read_png_chunk(data, [r EXCEPT !.cursor = 8], hostLittle).c
    /\ loop_count' = loop_count + 1
    /\ seen' = Append(seen, NAME_IHDR)
    /\ LET rd  == read_png_chunk(data, [r EXCEPT !.cursor = 8], hostLittle).r
           err == ihdr_check(first_chunk, chunk'.data_len)
           p   == process_ihdr_chunk(chunk', data, rd, info, hostLittle)
       IN  IF err # 0
           THEN /\ r' = [rd EXCEPT !.error = err]
                /\ pc' = "ret"
                /\ UNCHANGED << info, first_chunk, ihdr_payload >>
           ELSE /\ r' = p.r
                /\ info' = p.info
                /\ IF p.r.error # 0
                   THEN pc' = "ret" /\ UNCHANGED << first_chunk, ihdr_payload >>
                   ELSE /\ pc' = "chunks"
                        /\ first_chunk' = 0
                        /\ ihdr_payload' = SubSeq(data.bytes, 9, 8 + chunk'.data_len)
    /\ UNCHANGED << hostLittle, twin, out, got_idat_chunk, got_plte_chunk, got_gama_chunk, size_data,
                    zlib_buf, end, idat_payloads, deflate_runs, huff >>

NextIhdr == ValidateIhdr

SpecIhdr == InitIhdr /\ [][NextIhdr]_vars

----------------------------------------------------------------------------
(* The DEFLATE decode on its own: the input is a signature, an accepted     *)
(* IHDR chunk and one IDAT chunk whose payload is a zlib stream; the decode  *)
(* starts where the chunk loop is about to read the IEND chunk               *)

\* zlib headers: CM 8 with two window sizes and CM 9, every FLG byte
ZlibHeaders == { << cmf, flg >> : cmf \in { 8, 120, 121 }, flg \in 0..255 }

\* payloads of stored blocks
StoredPayloads == UNION { [ 1..n -> { 65, 66 } ] : n \in 0..MaxStored }

\* a final stored block: BFINAL = 1, BTYPE = 0, LEN, NLEN = ~LEN, the payload
StoredBlock(P) ==
    << 1, Len(P) % 256, Len(P) \div 256, 255 - (Len(P) % 256), 255 - (Len(P) \div 256) >> \o P

\* block sequences behind the header 78 01: final and non-final reserved blocks
\* (BTYPE 3), stored blocks, a stored block cut short
ZlibBodies ==
    { << 7 >>, << 7, 0 >>, << 6, 0 >>, << 62 >>, << 1, 1, 0 >> }
    \cup { StoredBlock(P) : P \in StoredPayloads }

ZlibStreams ==
    { h \o << 7, 0 >> : h \in ZlibHeaders }
    \cup { << 120, 1 >> \o b : b \in ZlibBodies }
    \cup { << 120 >>, << 120, 1 >> }
    \cup HuffStreams
    \cup DynamicStreams

\* the IHDR chunk in front of the IDAT chunk
ZlibIhdr == Chunk(NAME_IHDR, IhdrPayload(66048, 131328, 8, PNG_COLOR_TYPE_TRUECOLOUR))

\* the state of the chunk loop after the signature, ZlibIhdr and an IDAT chunk with
\* payload stream, the last byte of the accumulator holding the last byte of stream
AfterIdat(stream) ==
    LET at   == 8 + Len(Encode(ZlibIhdr))
        idat == [ base |-> at, bytes |-> Encode(Chunk(NAME_IDAT, stream)) ]
        rd   == read_png_chunk(idat, [ cursor |-> at, error |-> 0, type |-> LIBIMAGE_TYPE_PNG ],
                               hostLittle)
    IN  [ data |-> idat,
          r |-> rd.r,
          chunk |-> rd.c,
          info |-> [info0 EXCEPT !.width = BE32(66048), !.height = BE32(131328),
                                 !.color_type = PNG_COLOR_TYPE_TRUECOLOUR,
                                 !.compressed_data = stream, !.cd_offset = Len(stream),
                                 !.cd_size = IDAT_DEFAULT_BLOCK_SIZE, !.data = 1],
          first_chunk |-> 0,
          got_idat_chunk |-> 1,
          got_plte_chunk |-> 0,
          got_gama_chunk |-> 0,
          size_data |-> IDAT_DEFAULT_BLOCK_SIZE,
          loop_count |-> 2,
          zlib_buf |-> zbuf_init(0, 0, TRUE),
          end |-> 0,
          out |-> [ width |-> Zero32, height |-> Zero32, error |-> 0, data |-> 0 ],
          seen |-> << NAME_IHDR, NAME_IDAT >>,
          ihdr_payload |-> ZlibIhdr.payload,
          idat_payloads |-> stream,
          deflate_runs |-> 0,
          huff |-> huff0 ]

InitZlib ==
    /\ hostLittle \in BOOLEAN
    /\ pc = "chunks"
    /\ twin = NoTwin
    /\ \E stream \in ZlibStreams :
         \E s \in { AfterIdat(stream) } :
            /\ data = s.data
            /\ r = s.r
            /\ chunk = s.chunk
            /\ info = s.info
            /\ first_chunk = s.first_chunk
            /\ got_idat_chunk = s.got_idat_chunk
            /\ got_plte_chunk = s.got_plte_chunk
            /\ got_gama_chunk = s.got_gama_chunk
            /\ size_data = s.size_data
            /\ loop_count = s.loop_count
            /\ zlib_buf = s.zlib_buf
            /\ end = s.end
            /\ out = s.out
            /\ seen = s.seen
            /\ ihdr_payload = s.ihdr_payload
            /\ idat_payloads = s.idat_payloads
            /\ deflate_runs = s.deflate_runs
            /\ huff = s.huff

NextZlib ==
    \/ IendChunk
    \/ BlockReserved
    \/ BlockStored
    \/ BlockFixed
    \/ BlockDynamic
    \/ CodeLenStep
    \/ DynamicTables
    \/ HuffLiteral
    \/ HuffCopy
    \/ HuffEndOfBlock
    \/ Return

SpecZlib == InitZlib /\ [][NextZlib]_vars

----------------------------------------------------------------------------
(* build_huffman and decode_huffman on their own: a table of HuffBits bits  *)
(* is built from the code lengths of a complete prefix code and is asked    *)
(* for one symbol                                                           *)

RECURSIVE KraftSum(_, _)
\* the number of HuffBits-bit words the codes of the symbols 1..n of lens cover
KraftSum(lens, n) ==
    IF n = 0 THEN 0
    ELSE KraftSum(lens, n - 1) + (IF lens[n] > 0 THEN Pow2(HuffBits - lens[n]) ELSE 0)

\* the code lengths that form a complete prefix code
CompleteLens ==
    { lens \in [ 1..HuffSymbols -> 0..HuffBits ] : KraftSum(lens, HuffSymbols) = Pow2(HuffBits) }

\* the canonical code of symbol s (0-based) under lens:
\* next_code[l] = (next_code[l - 1] + bl_count[l - 1]) << 1, codes in symbol order
CanonicalCode(lens, s) ==
    LET bl_count == [ l \in 0..HuffBits |->
                        IF l = 0 THEN 0
                        ELSE Cardinality({ i \in 1..Len(lens) : lens[i] = l }) ]
        nc[l \in 0..HuffBits] == IF l = 0 THEN 0 ELSE (nc[l - 1] + bl_count[l - 1]) * 2
    IN  nc[lens[s + 1]] + Cardinality({ i \in 1..s : lens[i] = lens[s + 1] })

\* the byte the bit reader serves LSB-first: the code bits of s, first code bit first,
\* then the bits of pad
CodeByte(lens, s, pad) ==
    bit_reverse(CanonicalCode(lens, s), lens[s + 1]) + pad * Pow2(lens[s + 1])

InitHuffman ==
    /\ data = Buffer(png_file_sig)
    /\ hostLittle \in BOOLEAN
    /\ pc = "huffman"
    /\ r = [ cursor |-> 0, error |-> 0, type |-> 0 ]
    /\ info = info0
    /\ first_chunk = 1
    /\ got_idat_chunk = 0
    /\ got_plte_chunk = 0
    /\ got_gama_chunk = 0
    /\ size_data = 0
    /\ chunk = chunk0
    /\ loop_count = 0
    /\ zlib_buf = zbuf_init(0, 0, TRUE)
    /\ end = 0
    /\ out = [ width |-> Zero32, height |-> Zero32, error |-> 0, data |-> 0 ]
    /\ seen = << >>
    /\ ihdr_payload = << >>
    /\ idat_payloads = << >>
    /\ deflate_runs = 0
    /\ \E lens \in CompleteLens : huff = [huff0 EXCEPT !.lens = lens]
    /\ twin = NoTwin

\* new_huffman, build_huffman on lens, then decode_huffman on the code of a symbol s
BuildAndDecode ==
    \E s \in 0..(HuffSymbols - 1), fresh \in UninitCodes :
        /\ pc = "huffman"
        /\ huff.lens[s + 1] > 0
        /\ \E pad \in 0..(Pow2(HuffBits - huff.lens[s + 1]) - 1) :
              LET st == << CodeByte(huff.lens, s, pad) >>
                  h  == build_huffman(new_huffman(HuffBits, TRUE), huff.lens)
                  d  == decode_huffman(h, zbuf_init(1, 0, TRUE), st, fresh)
              IN  /\ info' = [info EXCEPT !.compressed_data = st, !.cd_offset = 1]
                  /\ zlib_buf' = d.b
                  /\ huff' = [huff EXCEPT !.lit = h, !.sym = s, !.lit_len = d.v]
        /\ UNCHANGED << data, hostLittle, twin, r, first_chunk, got_idat_chunk, got_plte_chunk,
                        got_gama_chunk, size_data, chunk, loop_count, end, out, pc, seen,
                        ihdr_payload, idat_payloads, deflate_runs >>

NextHuffman == BuildAndDecode

SpecHuffman == InitHuffman /\ [][NextHuffman]_vars

----------------------------------------------------------------------------
(* The CRC check of the chunk loop on its own, as compiled with             *)
(* LIBIMAGE_PNG_CHECK_CRC: the first chunk of the input is checked          *)

\* the payloads of the chunks checked
CrcPayloads == { << >>, << 65 >>, << 65, 66 >> }

\* w with its lowest bit flipped
FlipLowBit(w) == << w[1], w[2], w[3], IF w[4] % 2 = 0 THEN w[4] + 1 ELSE w[4] - 1 >>

\* trailers of a chunk: the ISO 3309 CRC-32 of type and payload, the same with one bit
\* flipped, what crc computes on type and payload in input order and in reversed type
\* order, and zero
CrcTrailers(type, payload) ==
    { crc_register(ISO_3309_POLYNOMIAL, type \o payload),
      FlipLowBit(crc_register(ISO_3309_POLYNOMIAL, type \o payload)),
      crc_register(CRC_POLYNOMIAL, type \o payload),
      crc_register(CRC_POLYNOMIAL, << type[4], type[3], type[2], type[1] >> \o payload),
      << 0, 0, 0, 0 >> }

\* a chunk with the trailer crc32
EncodeCrc(c, crc32) == BE32(c.len) \o c.type \o c.payload \o crc32

\* the bytes of the struct chunk behind chunk.type.b (start_chunk_data, end_chunk_data,
\* crc, the stack behind them): crc is handed chunk.type.b and 4 + data_len as length
ChunkTail(n) == [ 1..n -> UninitBytes ]

InitCrc ==
    /\ \E type \in { NAME_IEND, NAME_IDAT, NAME_tEXt }, payload \in CrcPayloads :
         \E t \in CrcTrailers(type, payload) :
            data = [ base |-> 8, bytes |-> EncodeCrc(Chunk(type, payload), t) ]
    /\ hostLittle \in BOOLEAN
    /\ pc = "crc"
    /\ Fresh

\* chunk = read_png_chunk(r); crc32 = crc(chunk.type.b, sizeof(chunk.type.b) +
\* chunk.data_len.i); if(chunk.crc.i != crc32) r->error = CRC_NOT_MATCH
CheckCrc ==
    /\ pc = "crc"
    /\ chunk' = read_png_chunk(data, [r EXCEPT !.cursor = 8], hostLittle).c
    /\ loop_count' = loop_count + 1
    /\ seen' = Append(seen, SubSeq(data.bytes, 5, 8))
    /\ \E tail \in ChunkTail(chunk'.data_len) :
         \E crc32 \in { crc(type_b(chunk', hostLittle) \o tail, hostLittle) } :
            r' = [read_png_chunk(data, [r EXCEPT !.cursor = 8], hostLittle).r EXCEPT
                     !.error = IF chunk'.crc # crc32
                               THEN LIBIMAGE_PNG_ERROR_CRC_NOT_MATCH ELSE 0]
    /\ pc' = "crc_checked"
    /\ UNCHANGED << data, hostLittle, twin, info, first_chunk, got_idat_chunk, got_plte_chunk,
                    got_gama_chunk, size_data, zlib_buf, end, out, ihdr_payload,
                    idat_payloads, deflate_runs, huff >>

NextCrc == CheckCrc

SpecCrc == InitCrc /\ [][NextCrc]_vars

----------------------------------------------------------------------------
(* read_png_chunk on an input that ends early.  libimage_process_data gets   *)
(* the input as a pointer without a length; data.size is the number of      *)
(* bytes of the caller's buffer, and the bytes behind it are whatever the   *)
(* memory there holds                                                       *)

\* the chunks whose encodings are cut short
EofChunks ==
    { Chunk(NAME_IHDR, IhdrPayload(1, 1, 8, 0)), Chunk(NAME_gAMA, BE32(100000)),
      Chunk(NAME_IDAT, << 120, 1, 7, 0 >>), Chunk(NAME_IEND, << >>) }

\* n bytes of memory that hold the byte j
Fill(j, n) == [ k \in 1..n |-> j ]

\* the signature and the first keep bytes of the chunk c, then memory that holds j
InitEof ==
    /\ \E c \in EofChunks, j \in UninitBytes :
         \E keep \in 3..Len(Encode(c)) :
            data = [ base  |-> 8,
                     bytes |-> SubSeq(Encode(c), 1, keep) \o Fill(j, 12 + Len(Encode(c)) - keep),
                     size  |-> 8 + keep ]
    /\ hostLittle \in BOOLEAN
    /\ pc = "eof"
    /\ Fresh

\* chunk = read_png_chunk(r) in the first iteration of the chunk loop
ReadChunkEof ==
    /\ pc = "eof"
    /\ chunk' = read_png_chunk(data, [r EXCEPT !.cursor = 8], hostLittle).c
    /\ r' = read_png_chunk(data, [r EXCEPT !.cursor = 8], hostLittle).r
    /\ loop_count' = loop_count + 1
    /\ seen' = Append(seen, SubSeq(data.bytes, 5, 8))
    /\ pc' = "eof_read"
    /\ UNCHANGED << data, hostLittle, twin, info, first_chunk, got_idat_chunk, got_plte_chunk,
                    got_gama_chunk, size_data, zlib_buf, end, out, ihdr_payload,
                    idat_payloads, deflate_runs, huff >>

NextEof == ReadChunkEof

SpecEof == InitEof /\ [][NextEof]_vars

----------------------------------------------------------------------------
(* Two decodes of one input, one after the other: the second starts from    *)
(* the same input bytes and draws the contents of fresh memory anew         *)

\* what libimage_process_data handed back, and the bytes the decode wrote
Returned ==
    [ error |-> out.error, width |-> out.width, height |-> out.height,
      output |-> info.uncompressed_data ]

\* the first decode has returned: its result is kept and the decode starts again on
\* the same input
DecodeAgain ==
    /\ pc = "done"
    /\ twin = NoTwin
    /\ twin' = Returned
    /\ pc' = "chunks"
    /\ hostLittle' = hostLittle
    /\ \E s \in { AfterIdat(idat_payloads) } :
            /\ data' = s.data
            /\ r' = s.r
            /\ chunk' = s.chunk
            /\ info' = s.info
            /\ first_chunk' = s.first_chunk
            /\ got_idat_chunk' = s.got_idat_chunk
            /\ got_plte_chunk' = s.got_plte_chunk
            /\ got_gama_chunk' = s.got_gama_chunk
            /\ size_data' = s.size_data
            /\ loop_count' = s.loop_count
            /\ zlib_buf' = s.zlib_buf
            /\ end' = s.end
            /\ out' = s.out
            /\ seen' = s.seen
            /\ ihdr_payload' = s.ihdr_payload
            /\ idat_payloads' = s.idat_payloads
            /\ deflate_runs' = s.deflate_runs
            /\ huff' = s.huff

NextTwin ==
    \/ IendChunk
    \/ BlockReserved
    \/ BlockStored
    \/ BlockFixed
    \/ BlockDynamic
    \/ CodeLenStep
    \/ DynamicTables
    \/ HuffLiteral
    \/ HuffCopy
    \/ HuffEndOfBlock
    \/ Return
    \/ DecodeAgain

SpecTwin == InitZlib /\ [][NextTwin]_vars

----------------------------------------------------------------------------
(* The DEFLATE decode on its own under the scheduling of a running program: *)
(* png_parse_huffman_dynamic_block runs to its end without being suspended, *)
(* so an iteration of its loop that can be taken is taken                   *)

SpecZlibLive == InitZlib /\ [][NextZlib]_vars /\ WF_vars(CodeLenStep)

----------------------------------------------------------------------------
(* The bit reader on its own: zbuf_get_n_bits is called again and again on  *)
(* a short input, before and after the end of the input is reached          *)

\* the inputs of the bit reader: up to MaxBitBytes bytes
MaxBitBytes == 2
BitBytes == { 0, 129, 255 }
BitInputs == UNION { [ 1..len -> BitBytes ] : len \in 0..MaxBitBytes }

InitBits ==
    /\ data = Buffer(png_file_sig)
    /\ hostLittle \in BOOLEAN
    /\ pc = "bits"
    /\ r = [ cursor |-> 0, error |-> 0, type |-> 0 ]
    /\ \E input \in BitInputs :
         /\ info = [info0 EXCEPT !.compressed_data = input, !.cd_offset = Len(input)]
         /\ zlib_buf = zbuf_init(Len(input), 0, TRUE)
    /\ first_chunk = 1
    /\ got_idat_chunk = 0
    /\ got_plte_chunk = 0
    /\ got_gama_chunk = 0
    /\ size_data = 0
    /\ chunk = chunk0
    /\ loop_count = 0
    /\ end = 0
    /\ out = [ width |-> Zero32, height |-> Zero32, error |-> 0, data |-> 0 ]
    /\ seen = << >>
    /\ ihdr_payload = << >>
    /\ idat_payloads = << >>
    /\ deflate_runs = 0
    /\ huff = huff0
    /\ twin = NoTwin

\* zbuf_get_n_bits(buf, n) with 1 <= n <= 16
GetBits ==
    /\ pc = "bits"
    /\ \E n \in 1..16 : zlib_buf' = zbuf_get_n_bits(zlib_buf, info.compressed_data, n).b
    /\ UNCHANGED << data, hostLittle, twin, r, info, first_chunk, got_idat_chunk,
                    got_plte_chunk, got_gama_chunk, size_data, chunk, loop_count, end, out,
                    pc, seen, ihdr_payload, idat_payloads, deflate_runs, huff >>

NextBits == GetBits

SpecBits == InitBits /\ [][NextBits]_vars

----------------------------------------------------------------------------
(* write_uncompressed_data on its own: it is called again and again with    *)
(* sizes on both sides of the first buffer size of 1024; huff.written is     *)
(* the sum of the sizes, huff.old_end and huff.actual_len are un_offset      *)
(* before the last call and its size                                         *)

\* the largest size of one call and the largest sum of the sizes
MaxWrite == 1025
MaxWritten == 2100
WriteSizes == { 0, 100, 500, MaxWrite }

\* the bytes buf->buf points at
WriteSource == [ k \in 1..MaxWrite |-> k % 256 ]

InitWrite ==
    /\ data = Buffer(png_file_sig)
    /\ hostLittle \in BOOLEAN
    /\ pc = "write"
    /\ r = [ cursor |-> 0, error |-> 0, type |-> 0 ]
    /\ info = [info0 EXCEPT !.compressed_data = WriteSource, !.cd_offset = MaxWrite]
    /\ zlib_buf = zbuf_init(MaxWrite, 0, TRUE)
    /\ first_chunk = 1
    /\ got_idat_chunk = 0
    /\ got_plte_chunk = 0
    /\ got_gama_chunk = 0
    /\ size_data = 0
    /\ chunk = chunk0
    /\ loop_count = 0
    /\ end = 0
    /\ out = [ width |-> Zero32, height |-> Zero32, error |-> 0, data |-> 0 ]
    /\ seen = << >>
    /\ ihdr_payload = << >>
    /\ idat_payloads = << >>
    /\ deflate_runs = 0
    /\ huff = huff0
    /\ twin = NoTwin

\* write_uncompressed_data(buf, info, size, NULL); a realloc that fails ends the calls
WriteData ==
    /\ pc = "write"
    /\ \E size \in WriteSizes, alloc_ok \in BOOLEAN :
         /\ info.un_offset + size <= MaxWritten
         /\ \E i \in { write_uncompressed_data(zlib_buf, info.compressed_data, info, size,
                                               alloc_ok) } :
              /\ info' = i
              /\ pc' = IF i.error # 0 THEN "write_failed" ELSE "write"
         /\ huff' = [huff EXCEPT !.written = huff.written + size,
                                 !.old_end = info.un_offset, !.actual_len = size]
    /\ UNCHANGED << data, hostLittle, twin, r, first_chunk, got_idat_chunk, got_plte_chunk,
                    got_gama_chunk, size_data, chunk, loop_count, zlib_buf, end, out, seen,
                    ihdr_payload, idat_payloads, deflate_runs >>

NextWrite == WriteData

SpecWrite == InitWrite /\ [][NextWrite]_vars

----------------------------------------------------------------------------
(* Properties                                                               *)

\* the decode stopped with the reader error e
FailedWith(e) == pc \in { "ret", "done" } /\ r.error = e

\* the type of the chunk read last
LastType == seen[Len(seen)]

\* chunk type t was read before the chunk read last
SeenBefore(t) == \E i \in 1..(Len(seen) - 1) : seen[i] = t

\* the payload of the chunk read last, as the input holds it
LastPayload == SubSeq(data.bytes, 9, Len(data.bytes) - 4)

\* the colour type byte of the accepted IHDR chunk
IhdrColourType == ihdr_payload[10]

\* C1: after any sequence of accepted IDAT chunks with payloads P1, ..., Pk the first
\* cd_offset bytes of the compressed-data buffer are P1 || ... || Pk and cd_offset is
\* the sum of their lengths.
C1_IdatConcatenation ==
    pc # "crash" =>
        /\ info.cd_offset = Len(idat_payloads)
        /\ Len(info.compressed_data) >= info.cd_offset
        /\ SubSeq(info.compressed_data, 1, info.cd_offset) = idat_payloads

C3_BadSignatureRejected ==
    (data.base = 0 /\ SubSeq(data.bytes, 1, 8) # png_file_sig /\ pc # "start") =>
        /\ pc = "done"
        /\ out.error \in { LIBIMAGE_PNG_ERROR_HEADER, LIBIMAGE_ERROR_TYPE_NOT_SUPPORTED }
        /\ loop_count = 0

C4_NamedWitness ==
    /\ Len(seen) = 1
    /\ seen[1] = NAME_IDAT
    /\ pc = "done"
    /\ out.error = LIBIMAGE_PNG_ERROR_IHDR_NOT_FOUND

\* C5: IHDR validation accepts exactly the (color_type, bit_depth) pairs of the table
\* 0 -> {1,2,4,8,16}, 2 -> {8,16}, 3 -> {1,2,4,8}, 4 -> {8,16}, 6 -> {8,16}; every
\* other pair is rejected with IHDR_COLOUR_TYPE, IHDR_BIT_DEPTH or
\* IHDR_BIT_DEPTH_COMBINATION.
C5_ColourDepthTable ==
    (pc # "ihdr" /\ Len(seen) = 1) =>
        LET bd == LastPayload[9]
            ct == LastPayload[10]
        IN  (bd \in AllowedDepths(ct))
            <=> r.error \notin { LIBIMAGE_PNG_ERROR_IHDR_COLOUR_TYPE,
                                 LIBIMAGE_PNG_ERROR_IHDR_BIT_DEPTH,
                                 LIBIMAGE_PNG_ERROR_IHDR_BIT_DEPTH_COMBINATION }

\* C6: with the other IHDR fields valid, width or height 0 is rejected with ZERO_SIZE,
\* width or height above LIBIMAGE_PNG_MAX_IMAGE_SIZE with BIG_IMAGE, and a header with
\* both in 1..LIBIMAGE_PNG_MAX_IMAGE_SIZE is accepted.
C6_Dimensions ==
    (pc # "ihdr" /\ Len(seen) = 1 /\ LastPayload[9] \in AllowedDepths(LastPayload[10])) =>
        LET w    == SubSeq(LastPayload, 1, 4)
            h    == SubSeq(LastPayload, 5, 8)
            zero == WordIsZero(w) \/ WordIsZero(h)
            big  == WordGt(w, LIBIMAGE_PNG_MAX_IMAGE_SIZE)
                    \/ WordGt(h, LIBIMAGE_PNG_MAX_IMAGE_SIZE)
        IN  /\ (zero /\ ~big) => FailedWith(LIBIMAGE_PNG_ERROR_ZERO_SIZE)
            /\ (big /\ ~zero) => FailedWith(LIBIMAGE_PNG_ERROR_BIG_IMAGE)
            /\ (big /\ zero) => \/ FailedWith(LIBIMAGE_PNG_ERROR_ZERO_SIZE)
                                \/ FailedWith(LIBIMAGE_PNG_ERROR_BIG_IMAGE)
            /\ (~zero /\ ~big) => (pc = "chunks" /\ r.error = 0)

\* C7: IHDR is accepted only as the first chunk and only with length 13: an IHDR after
\* an accepted IHDR fails with MULTIPLE_IHDR, a first IHDR whose length is not 13 fails
\* with CORRUPT_IHDR.
C7_IhdrFirstAndLength13 ==
    (Len(seen) > 0 /\ LastType = NAME_IHDR) =>
        /\ (Len(seen) > 1 /\ seen[1] = NAME_IHDR)
               => FailedWith(LIBIMAGE_PNG_ERROR_MULTIPLE_IHDR)
        /\ (Len(seen) = 1 /\ Len(LastPayload) # 13)
               => FailedWith(LIBIMAGE_PNG_ERROR_CORRUPT_IHDR)
        /\ (pc = "chunks" /\ r.error = 0)
               => (Len(seen) = 1 /\ Len(LastPayload) = 13 /\ ihdr_payload = LastPayload)

\* an IHDR chunk after an accepted IHDR chunk was refused
C7_Witness ==
    /\ Len(seen) > 1
    /\ seen[1] = NAME_IHDR
    /\ LastType = NAME_IHDR
    /\ pc = "done"
    /\ out.error = LIBIMAGE_PNG_ERROR_MULTIPLE_IHDR

\* C8: after the IHDR, a gAMA that follows a PLTE fails with GAMA_AFTER_PLTE, a second
\* gAMA fails with MULTIPLE_GAMA, and a first gAMA before any PLTE is accepted and
\* stores its payload as a big-endian 32-bit value.
C8_GamaOrdering ==
    (Len(seen) > 1 /\ LastType = NAME_gAMA) =>
        IF SeenBefore(NAME_PLTE)
        THEN FailedWith(LIBIMAGE_PNG_ERROR_GAMA_AFTER_PLTE)
        ELSE IF SeenBefore(NAME_gAMA)
        THEN FailedWith(LIBIMAGE_PNG_ERROR_MULTIPLE_GAMA)
        ELSE /\ pc = "chunks"
             /\ r.error = 0
             /\ got_gama_chunk = 1
             /\ info.gamma = SubSeq(LastPayload, 1, 4)

\* a second gAMA chunk, no PLTE before it, was refused on a little-endian host that
\* holds the value of the first
C8_Witness ==
    /\ Len(seen) > 1
    /\ LastType = NAME_gAMA
    /\ SeenBefore(NAME_gAMA)
    /\ ~SeenBefore(NAME_PLTE)
    /\ hostLittle
    /\ info.gamma = BE32(100000)
    /\ pc = "done"
    /\ out.error = LIBIMAGE_PNG_ERROR_MULTIPLE_GAMA

\* C9: after an IHDR with colour type 0 or 4 a PLTE fails with UNEXPECTED_PLTE; with
\* colour type 2, 3 or 6 it is accepted and sets got_plte_chunk.
C9_PlteByColourType ==
    (Len(seen) > 1 /\ LastType = NAME_PLTE) =>
        IF IhdrColourType \in { 0, 4 }
        THEN FailedWith(LIBIMAGE_PNG_ERROR_UNEXPECTED_PLTE)
        ELSE /\ IhdrColourType \in { 2, 3, 6 }
             /\ pc = "chunks"
             /\ r.error = 0
             /\ got_plte_chunk = 1

\* a PLTE chunk after an IHDR of colour type 4 was refused
C9_Witness ==
    /\ Len(seen) > 1
    /\ LastType = NAME_PLTE
    /\ IhdrColourType = 4
    /\ pc = "done"
    /\ out.error = LIBIMAGE_PNG_ERROR_UNEXPECTED_PLTE

\* C10: on IEND after the IHDR, no IDAT before it fails with NO_IDAT; otherwise colour
\* type 3 with no PLTE before it fails with NO_PLTE; the DEFLATE decode runs only when
\* both checks pass, and then it runs.
C10_IendChecks ==
    /\ (Len(seen) > 1 /\ LastType = NAME_IEND) =>
           IF ~SeenBefore(NAME_IDAT)
           THEN FailedWith(LIBIMAGE_PNG_ERROR_NO_IDAT) /\ deflate_runs = 0
           ELSE IF IhdrColourType = 3 /\ ~SeenBefore(NAME_PLTE)
           THEN FailedWith(LIBIMAGE_PNG_ERROR_NO_PLTE) /\ deflate_runs = 0
           ELSE deflate_runs = 1
    /\ deflate_runs > 0 => (Len(seen) > 1 /\ LastType = NAME_IEND)

\* an IEND after IDAT without PLTE, colour type 3, was refused before DEFLATE
C10_Witness ==
    /\ Len(seen) > 1
    /\ LastType = NAME_IEND
    /\ SeenBefore(NAME_IDAT)
    /\ IhdrColourType = 3
    /\ pc = "done"
    /\ out.error = LIBIMAGE_PNG_ERROR_NO_PLTE
    /\ deflate_runs = 0

\* C11: a chunk whose type is none of IHDR, gAMA, PLTE, IDAT, IEND and that arrives
\* after the IHDR ends the decode, and the error reported to the caller is
\* LIBIMAGE_PNG_ERROR_INVALID_FILE, never 0.
C11_UnknownChunkInvalidFile ==
    (Len(seen) > 1
     /\ LastType \notin { NAME_IHDR, NAME_gAMA, NAME_PLTE, NAME_IDAT, NAME_IEND }) =>
        /\ pc \in { "ret", "done" }
        /\ r.error = LIBIMAGE_PNG_ERROR_INVALID_FILE
        /\ pc = "done" => out.error = LIBIMAGE_PNG_ERROR_INVALID_FILE

\* C12: on every exit that reports an error the IDAT accumulator, the sliding window
\* and the output buffer have been released, and no buffer is returned to the caller.
C12_ErrorReleasesBuffers ==
    (pc = "done" /\ out.error # 0) =>
        /\ info.data = 0
        /\ zlib_buf.sliding_window = 0
        /\ huff.lit.entries = 0
        /\ huff.dist.entries = 0
        /\ info.un_size = 0
        /\ out.data = 0

\* the zlib stream handed to the DEFLATE decode, and its header
Stream == info.compressed_data

HeaderCheck == (Stream[1] * 256 + Stream[2]) % 31

\* the decode was started with its sliding window allocated
DeflateStarted == deflate_runs > 0 /\ zlib_buf.allocated_window = 1

\* no DEFLATE block was read: the bit reader is still empty behind the two header bytes
NoBlockRead ==
    /\ pc # "deflate"
    /\ zlib_buf.buf = 2
    /\ zlib_buf.code_buf_bits = 0
    /\ info.un_offset = 0

C14_HeaderFieldOrder ==
    (DeflateStarted /\ Len(Stream) > 2 /\ HeaderCheck = 0) =>
        IF BitAnd(Stream[1], 15) # 8
        THEN FailedWith(LIBIMAGE_PNG_ERROR_ZLIB_COMPRESSION) /\ NoBlockRead
        ELSE IF BitAnd(Stream[2], 32) # 0
        THEN FailedWith(LIBIMAGE_PNG_ERROR_PRESET_DICT) /\ NoBlockRead
        ELSE /\ zlib_buf.error = 0
             /\ zlib_buf.buf >= 2
             /\ (pc = "deflate" /\ zlib_buf.code_buf_bits = 0) => zlib_buf.buf = 2

\* the stream is a zlib header and one final stored block with a correct LEN and NLEN
IsStoredStream ==
    /\ Len(Stream) >= 7
    /\ HeaderCheck = 0
    /\ BitAnd(Stream[1], 15) = 8
    /\ BitAnd(Stream[2], 32) = 0
    /\ Stream[3] = 1
    /\ Stream[4] + 256 * Stream[5] = Len(Stream) - 7
    /\ Stream[6] = 255 - Stream[4]
    /\ Stream[7] = 255 - Stream[5]

\* C15: a zlib stream that wraps one final stored block with LEN = |P| and
\* NLEN = ~LEN decodes without error and the output is P.
C15_StoredRoundTrip ==
    (pc = "done" /\ DeflateStarted /\ IsStoredStream
     /\ out.error # LIBIMAGE_ERROR_OUT_OF_MEMORY) =>
        /\ out.error = 0
        /\ info.un_offset = Len(Stream) - 7
        /\ info.uncompressed_data = SubSeq(Stream, 8, Len(Stream))

\* C16: a block header with BTYPE = 3 ends the decode with
\* LIBIMAGE_PNG_ERROR_CORRUPTED_FILE whatever BFINAL is: the decode does not succeed.
C16_ReservedBlockRejected ==
    (pc = "done" /\ DeflateStarted /\ Len(Stream) > 2 /\ HeaderCheck = 0
     /\ BitAnd(Stream[1], 15) = 8 /\ BitAnd(Stream[2], 32) = 0
     /\ (Stream[3] \div 2) % 4 = 3) =>
        out.error = LIBIMAGE_PNG_ERROR_CORRUPTED_FILE

\* the loop of decompress_huffman_block has just finished a length/distance pair
AfterCopy == pc = "inflate" /\ huff.lit_len >= 257

\* the length and the distance of the pair came from inside the two tables
TablesInBounds ==
    /\ huff.encoded_len < Len(png_length_from_spec)
    /\ huff.dist_code < Len(png_dist_from_spec)

\* C17: a decoded literal/length symbol of 286 or more makes the decode fail, and
\* png_length_from_spec (29 entries) and png_dist_from_spec (30 entries) are never
\* indexed behind their end.
C17_InvalidSymbolRejected ==
    /\ huff.lit_len >= 286 => (pc \in { "ret", "done" } /\ r.error # 0)
    /\ TablesInBounds

\* C18: a length/distance pair (L, D) appends exactly L bytes, and the i-th of them is
\* the output byte at old_end - D + i, also when D < L.
C18_CopyFromDistance ==
    (AfterCopy /\ TablesInBounds /\ info.error = 0
     /\ huff.distance >= 1 /\ huff.distance <= huff.old_end) =>
        /\ info.un_offset = huff.old_end + huff.actual_len
        /\ \A i \in 1..huff.actual_len :
              info.uncompressed_data[huff.old_end + i]
                  = info.uncompressed_data[huff.old_end - huff.distance + i]

\* C19: a back-reference is read only with a distance in 1..32768 that does not
\* exceed the number of bytes written, and its source is never before the start of the
\* output buffer.
C19_DistanceWithinOutput ==
    (AfterCopy /\ TablesInBounds) =>
        /\ huff.distance \in 1..32768
        /\ huff.distance <= huff.old_end
        /\ huff.source >= 0

\* C20: for code lengths that form a complete prefix code, the table of build_huffman
\* decodes to s the canonical code of every symbol s with lens[s] > 0, the first bit of
\* the code served first by the bit reader.
C20_CanonicalDecode ==
    (pc = "huffman" /\ huff.sym >= 0) => huff.lit_len = huff.sym

\* the chunk the CRC check ran on: its type, payload and trailer in the input
CrcType == SubSeq(data.bytes, 5, 8)
CrcPayload == SubSeq(data.bytes, 9, Len(data.bytes) - 4)
CrcTrailer == SubSeq(data.bytes, Len(data.bytes) - 3, Len(data.bytes))

\* C21: with the CRC check compiled in, a chunk is accepted exactly when its big-endian
\* trailer is the ISO 3309 CRC-32 of its type bytes followed by its payload bytes, and a
\* rejected chunk fails with CRC_NOT_MATCH.
C21_CrcAcceptsExactlyStandard ==
    pc = "crc_checked" =>
        /\ r.error = 0 <=> CrcTrailer = crc_register(ISO_3309_POLYNOMIAL, CrcType \o CrcPayload)
        /\ r.error # 0 => r.error = LIBIMAGE_PNG_ERROR_CRC_NOT_MATCH

\* the highest offset read_png_chunk read: the last byte of c.crc.i, just before the
\* cursor it leaves
LastOffsetRead == r.cursor - 1

\* C22: read_png_chunk reads no byte at an offset at or beyond the end of the input, and
\* a chunk that extends past the end of the input leaves an error in the reader.
C22_NoReadPastEnd ==
    pc = "eof_read" =>
        /\ LastOffsetRead < data.size
        /\ (8 + 12 + chunk.data_len > data.size) => r.error # 0

\* an allocation failed in the decode that returned err
OutOfMemory(err) == err \in { LIBIMAGE_ERROR_OUT_OF_MEMORY, LIBIMAGE_ERROR_MEMORY_ERROR }

\* C23: two decodes of the same input in which no allocation fails return the same error
\* code, the same width and height and the same output bytes, whatever fresh memory held.
C23_SameInputSameResult ==
    (pc = "done" /\ twin # NoTwin /\ ~OutOfMemory(twin.error) /\ ~OutOfMemory(out.error)) =>
        Returned = twin

\* png_parse_huffman_dynamic_block is at the head of its loop and n < total holds
InCodeLenLoop == pc = "codelens" /\ huff.n < huff.total

\* C24: every decode ends: the loops finish or return an error, also when the stream
\* ends early and the bit reader serves zero bits; so the code length loop of a
\* dynamic block, once entered, is left.
C24_DecodeTerminates == InCodeLenLoop ~> ~InCodeLenLoop


\* the bit reader of BuildAndDecode after its fill and before a bit is taken from it
Filled == zbuf_fill_code_buf(zbuf_init(1, 0, TRUE), info.compressed_data)

\* the entry the decode_huffman of BuildAndDecode returned the symbol of
ReturnedEntry == huffman_entry(huff.lit, LowBits(Filled.code_buf, HuffBits))

\* C25: decode_huffman takes from the bit reader exactly bits_used bits of the entry it
\* returns the symbol of: the bits left in the bit reader are the bits behind the code.
C25_DecodeConsumesCodeLength ==
    (pc = "huffman" /\ huff.sym >= 0 /\ ReturnedEntry # Unwritten) =>
        /\ zlib_buf.code_buf = Shr(Filled.code_buf, ReturnedEntry.bits_used)
        /\ zlib_buf.code_buf_bits = Filled.code_buf_bits - ReturnedEntry.bits_used


\* an iteration of the code length loop has just decoded the code length symbol
\* huff.code_sym and read its extra bits
AfterCodeLen == pc = "codelens" /\ huff.code_sym \in 0..18 /\ huff.n_before < huff.total

\* the number of code lengths RFC 1951 gives the symbol
ExpansionCount ==
    IF huff.code_sym <= 15 THEN 1
    ELSE IF huff.code_sym = 18 THEN 11 + huff.code_extra
    ELSE 3 + huff.code_extra

\* the code length RFC 1951 gives the symbol: its own value, the length before it, or 0
ExpansionValue ==
    IF huff.code_sym <= 15 THEN huff.code_sym
    ELSE IF huff.code_sym = 16 THEN zlib_buf.window[huff.n_before]
    ELSE 0

\* C26: a code length symbol 0..15 adds that one length to the array of code lengths,
\* 16 adds the length before it 3 + extra times, 17 adds 3 + extra zeros and 18 adds
\* 11 + extra zeros; entry k of the array, one byte each, is the length of symbol k.
C26_CodeLengthExpansion ==
    (AfterCodeLen /\ (huff.code_sym = 16 => huff.n_before > 0)) =>
        /\ huff.n = huff.n_before + ExpansionCount
        /\ Len(zlib_buf.window) = huff.n
        /\ \A k \in (huff.n_before + 1)..huff.n : zlib_buf.window[k] = ExpansionValue


\* decompress_huffman_block has built its tables for a block with BTYPE 1
FixedTablesBuilt == pc = "inflate" /\ huff.hlit = 0 /\ huff.lit_len = -1

\* the arrays decompress_huffman_block handed to build_huffman: size_lit bytes at the
\* start of the sliding window and size_dist bytes behind them
LitLensHanded == WindowBytes(zlib_buf, 0, 288)
DistLensHanded == WindowBytes(zlib_buf, 288, 32)

\* the code length of literal/length symbol k in RFC 1951, 3.2.6
Rfc1951FixedLength(k) ==
    IF k <= 143 THEN 8 ELSE IF k <= 255 THEN 9 ELSE IF k <= 279 THEN 7 ELSE 8

\* C27: in a block with BTYPE 1, the first or a later one, build_huffman gets the
\* lengths 8 for the literal/length symbols 0..143, 9 for 144..255, 7 for 256..279 and
\* 8 for 280..287, and the length 5 for the distance symbols 0..31.
C27_FixedCodeLengths ==
    FixedTablesBuilt =>
        /\ \A k \in 0..287 : LitLensHanded[k + 1] = Rfc1951FixedLength(k)
        /\ \A k \in 0..31 : DistLensHanded[k + 1] = 5


\* C28: after any calls of zbuf_get_n_bits with 1 <= n <= 16, before or behind the end
\* of the input, 0 <= code_buf_bits <= 31 and code_buf < 2^code_buf_bits.
C28_BitReaderInvariant ==
    pc = "bits" =>
        /\ zlib_buf.code_buf_bits >= 0
        /\ zlib_buf.code_buf_bits <= 31
        /\ ~GeOneShl(zlib_buf.code_buf, zlib_buf.code_buf_bits)

\* one bit was taken from an input without a byte: the fill went to 32 bits behind the
\* end of the input
C28_Witness ==
    pc = "bits" /\ Len(info.compressed_data) = 0 /\ zlib_buf.code_buf_bits = 31


\* the chunk loop has read an IEND chunk
IendRead == Len(seen) > 0 /\ seen[Len(seen)] = NAME_IEND

\* C29: handle_png_data runs at most once, and only in the case of an IEND chunk read
\* after an accepted IHDR and an IDAT; a chunk behind the IEND chunk is not read: the
\* IEND chunk is the last chunk read and the cursor stays behind it.
C29_DeflateOnceAtIend ==
    /\ deflate_runs <= 1
    /\ deflate_runs = 1 =>
          /\ IendRead
          /\ seen[1] = NAME_IHDR /\ ihdr_payload # << >>
          /\ \E j \in 2..(Len(seen) - 1) : seen[j] = NAME_IDAT
    /\ \A i \in 1..(Len(seen) - 1) : seen[i] # NAME_IEND
    /\ IendRead =>
          /\ pc # "chunks"
          /\ chunk.type = TYPE_IEND
          /\ r.cursor = data.base + Len(data.bytes)

\* a decode that ran handle_png_data and returned
C29_Witness == pc = "done" /\ deflate_runs = 1 /\ IendRead /\ Len(seen) >= 3


\* C30: after calls of write_uncompressed_data in which no allocation failed,
\* 0 <= un_offset <= un_size, un_offset is the sum of the sizes written, and the last
\* call wrote below index un_size: its bytes are those from the old un_offset on.
C30_OutputWithinBuffer ==
    (pc = "write" /\ huff.actual_len >= 0) =>
        /\ info.un_offset >= 0
        /\ info.un_offset <= info.un_size
        /\ info.un_offset = huff.written
        /\ Len(info.uncompressed_data) = info.un_offset
        /\ huff.old_end + huff.actual_len <= info.un_size

\* the buffer of 1024 bytes was grown to 2048 bytes and bytes were written behind
\* index 1024
C30_Witness ==
    pc = "write" /\ info.un_size = 2048 /\ info.un_offset > 1024 /\ huff.actual_len > 0

====
